---- MODULE Spec2Model ----
(***************************************************************************)
(* A model of the HandReadings poker evaluation engine (lib/poker):        *)
(* the card model, the combination generator, the hand classifier, the    *)
(* high- and low-hand comparators and the best-hand search.               *)
(***************************************************************************)
EXTENDS Integers, Sequences, FiniteSets, TLC

VARIABLES
    pc,              \* position of the modelled call
    hand1,           \* first Card[] argument (classifier / comparators)
    hand2,           \* second Card[] argument (comparators)
    hand3,           \* a third hand, for the relational laws of the comparators
    rank,            \* HandRank argument of compareHighHands
    itemsArg,        \* items argument of combinations
    kArg,            \* k argument of combinations
    result,          \* value returned by the pure function applied
    calls,           \* the calls of findBestHand that have returned, oldest first
    storage,         \* AsyncStorage item HandReadingRoundResults, or Null
    savers,          \* the saveRoundResult calls issued, oldest first
    saved,           \* the results handed to saveRoundResult since the last reset
    screen,          \* the state of HandReadingScreen as of its last render
    heap,            \* the Set objects of selectedAnswers, which are changed in place
    timers,          \* the setTimeout callbacks that have not run yet, oldest first
    holeCards,       \* findBestHand: holeCards
    communityCards,  \* findBestHand: communityCards
    cardCount,       \* findBestHand: cardCount
    allCombinations, \* findBestHand: allCombinations
    idx,             \* findBestHand: number of combinations already folded
    bestHighRank,    \* findBestHand: bestHighRank
    bestHighHand,    \* findBestHand: bestHighHand
    bestLowHand      \* findBestHand: bestLowHand (Null when null)

vars == <<pc, hand1, hand2, hand3, rank, itemsArg, kArg, result, calls,
          storage, savers, saved, screen, heap, timers,
          holeCards, communityCards, cardCount,
          allCombinations, idx, bestHighRank, bestHighHand, bestLowHand>>

(***************************************************************************)
(* Card model (lib/models/Card.ts)                                         *)
(***************************************************************************)
ALL_SUITS == <<"Hearts", "Diamonds", "Clubs", "Spades">>
ALL_RANKS == <<"2", "3", "4", "5", "6", "7", "8", "9", "10", "J", "Q", "K", "A">>

createCard(suit, r) == [suit |-> suit, rank |-> r]

rankToValue(r) ==
    CASE r = "2" -> 2 [] r = "3" -> 3 [] r = "4" -> 4 [] r = "5" -> 5
      [] r = "6" -> 6 [] r = "7" -> 7 [] r = "8" -> 8 [] r = "9" -> 9
      [] r = "10" -> 10 [] r = "J" -> 11 [] r = "Q" -> 12 [] r = "K" -> 13
      [] r = "A" -> 14

rankToLowValue(r) == IF r = "A" THEN 1 ELSE rankToValue(r)

(***************************************************************************)
(* HandRank (lib/poker/types.ts)                                           *)
(***************************************************************************)
HighCard == 0
OnePair == 1
TwoPair == 2
ThreeOfAKind == 3
Straight == 4
Flush == 5
FullHouse == 6
FourOfAKind == 7
StraightFlush == 8
RoyalFlush == 9

HandRank == HighCard..RoyalFlush

(***************************************************************************)
(* JavaScript values the engine produces outside the contract              *)
(***************************************************************************)
Undefined == 0 - 1          \* an array read past the end, rankToValue(undefined)
NegInfinity == 0 - 100      \* Math.max() of no arguments
Null == <<"null">>          \* bestLowHand: null
Throws == "throws"          \* an uncaught Error / TypeError

JsGt(a, b) == a # Undefined /\ b # Undefined /\ a > b
JsLt(a, b) == a # Undefined /\ b # Undefined /\ a < b
At(s, i) == IF i \in 1..Len(s) THEN s[i] ELSE Undefined

(***************************************************************************)
(* Array helpers: map, filter, sort, Set, Math.max                         *)
(***************************************************************************)
Range(s) == {s[i] : i \in 1..Len(s)}

RECURSIVE Insert(_, _, _)
\* v inserted into the sequence s, which is sorted so that before(a, b) holds
\* of neighbours
Insert(v, s, desc) ==
    IF s = <<>> THEN <<v>>
    ELSE IF (IF desc THEN v >= Head(s) ELSE v <= Head(s)) THEN <<v>> \o s
    ELSE <<Head(s)>> \o Insert(v, Tail(s), desc)

RECURSIVE Sort(_, _)
Sort(s, desc) == IF s = <<>> THEN <<>> ELSE Insert(Head(s), Sort(Tail(s), desc), desc)

SortAsc(s) == Sort(s, FALSE)
SortDesc(s) == Sort(s, TRUE)

ranksOf(cards) == [i \in 1..Len(cards) |-> cards[i].rank]
suitsOf(cards) == [i \in 1..Len(cards) |-> cards[i].suit]
highValues(cards) == [i \in 1..Len(cards) |-> rankToValue(cards[i].rank)]
lowValues(cards) == [i \in 1..Len(cards) |-> rankToLowValue(cards[i].rank)]

MathMax(s) ==
    IF s = <<>> THEN NegInfinity
    ELSE CHOOSE m \in Range(s) : \A x \in Range(s) : x <= m

\* number of cards of the hand with rank r: rankCounts[r]
rankCount(cards, r) == Cardinality({i \in 1..Len(cards) : cards[i].rank = r})

\* Object.entries / Object.values order of rankCounts: the integer-like keys
\* ("2".."10") ascending, then the other keys ("J", "Q", "K", "A") in the
\* order of their first insertion
rankCountKeys(cards) ==
    LET present == Range(ranksOf(cards))
        numeric == SelectSeq(SubSeq(ALL_RANKS, 1, 9), LAMBDA r : r \in present)
        isFirstFace(i) == /\ rankToValue(cards[i].rank) > 10
                          /\ \A j \in 1..(i - 1) : cards[j].rank # cards[i].rank
        firstOnly == [i \in 1..Len(cards) |->
                        IF isFirstFace(i) THEN cards[i].rank ELSE ""]
    IN numeric \o SelectSeq(firstOnly, LAMBDA r : r # "")

\* Object.values(rankCounts).sort((a, b) => b - a): the count-shape
countShape(cards) ==
    LET keys == rankCountKeys(cards)
    IN SortDesc([i \in 1..Len(keys) |-> rankCount(cards, keys[i])])

(***************************************************************************)
(* Combination generator (lib/poker/handEvaluator.ts)                      *)
(***************************************************************************)
RECURSIVE combinations(_, _)
RECURSIVE combinationsFrom(_, _, _)
\* the loop of combinations stopping one iteration early (i < items.length - k)
combinationsFromShortLoop(items, k, i) ==
    IF i > Len(items) - k THEN <<>>
    ELSE LET head == items[i]
             tail == SubSeq(items, i + 1, Len(items))
             subcombos == combinations(tail, k - 1)
         IN [j \in 1..Len(subcombos) |-> <<head>> \o subcombos[j]]
            \o combinationsFrom(items, k, i + 1)

\* the iterations i, i+1, ..., items.length - k of the loop of combinations
\* (i counts from 1 here)
combinationsFrom(items, k, i) ==
    IF i > Len(items) - k + 1 THEN <<>>
    ELSE LET head == items[i]
             tail == SubSeq(items, i + 1, Len(items))
             subcombos == combinations(tail, k - 1)
         IN [j \in 1..Len(subcombos) |-> <<head>> \o subcombos[j]]
            \o combinationsFrom(items, k, i + 1)

\* combinations returning no subset at all for k <= 0
combinationsNoneForZero(items, k) ==
    IF k <= 0 THEN <<>>
    ELSE IF k > Len(items) THEN <<>>
    ELSE IF k = Len(items) THEN <<items>>
    ELSE combinationsFrom(items, k, 1)

combinations(items, k) ==
    IF k <= 0 THEN << <<>> >>
    ELSE IF k > Len(items) THEN <<>>
    ELSE IF k = Len(items) THEN <<items>>
    ELSE combinationsFrom(items, k, 1)

(***************************************************************************)
(* Low-hand qualifier and comparator                                       *)
(***************************************************************************)
\* isQualifyingLow without the test that the five ranks are unique
isQualifyingLowAnyRanks(fiveCards) ==
    LET lowCards == SelectSeq(fiveCards, LAMBDA card : rankToLowValue(card.rank) <= 8)
    IN Len(lowCards) = 5

isQualifyingLow(fiveCards) ==
    LET lowCards == SelectSeq(fiveCards, LAMBDA card : rankToLowValue(card.rank) <= 8)
    IN IF Len(lowCards) # 5 THEN FALSE
       ELSE Cardinality(Range(ranksOf(fiveCards))) = 5

RECURSIVE compareLowFrom(_, _, _)
\* the loop of compareLowHands from position i (1-based) on
compareLowFrom(values1, values2, i) ==
    IF i > 5 THEN 0
    ELSE IF JsLt(At(values1, i), At(values2, i)) THEN 0 - 1
    ELSE IF JsGt(At(values1, i), At(values2, i)) THEN 1
    ELSE compareLowFrom(values1, values2, i + 1)

\* compareLowHands on the high values, the ace counting 14
compareLowHandsAceHigh(h1, h2) ==
    compareLowFrom(SortDesc(highValues(h1)), SortDesc(highValues(h2)), 1)

compareLowHands(h1, h2) ==
    compareLowFrom(SortDesc(lowValues(h1)), SortDesc(lowValues(h2)), 1)

(***************************************************************************)
(* Hand classifier                                                         *)
(***************************************************************************)
\* the consecutiveness loop of checkStraight
isConsecutive(values) ==
    \A i \in 1..(Len(values) - 1) : values[i + 1] - values[i] = 1

\* checkStraight letting the ace join the king and the two at once, so that
\* the values may run round the corner
checkStraightWrapAround(ranks) ==
    LET places == {(rankToValue(ranks[i]) - 2) % 13 : i \in 1..Len(ranks)}
    IN \E start \in 0..12 : places = {(start + i) % 13 : i \in 0..4}

checkStraight(ranks) ==
    LET values == SortAsc([i \in 1..Len(ranks) |-> rankToValue(ranks[i])])
        wheelValues == SortAsc([i \in 1..Len(values) |->
                                   IF values[i] = 14 THEN 1 ELSE values[i]])
    IN IF isConsecutive(values) THEN TRUE
       ELSE IF 14 \in Range(values)
            THEN isConsecutive(wheelValues) /\ wheelValues = <<1, 2, 3, 4, 5>>
            ELSE FALSE

\* isRoyalFlush looking for the ace alone
isRoyalFlushHasAce(ranks) == "A" \in Range(ranks)

isRoyalFlush(ranks) ==
    LET royalRanks == {"A", "K", "Q", "J", "10"}
        handRanks == Range(ranks)
    IN IF Cardinality(handRanks) # Cardinality(royalRanks) THEN FALSE
       ELSE \A r \in royalRanks : r \in handRanks

\* evaluateHand with the flush test moved in front of the straight-flush tests
evaluateHandFlushFirst(cards) ==
    LET ranks == ranksOf(cards)
        suits == suitsOf(cards)
        isFlush == Cardinality(Range(suits)) = 1
        isStraight == checkStraight(ranks)
        counts == countShape(cards)
    IN IF isFlush THEN Flush
       ELSE IF counts = <<4, 1>> THEN FourOfAKind
       ELSE IF counts = <<3, 2>> THEN FullHouse
       ELSE IF isStraight THEN Straight
       ELSE IF counts = <<3, 1, 1>> THEN ThreeOfAKind
       ELSE IF counts = <<2, 2, 1>> THEN TwoPair
       ELSE IF counts = <<2, 1, 1, 1>> THEN OnePair
       ELSE HighCard

evaluateHand(cards) ==
    LET ranks == ranksOf(cards)
        suits == suitsOf(cards)
        isFlush == Cardinality(Range(suits)) = 1
        isStraight == checkStraight(ranks)
        counts == countShape(cards)
    IN IF isFlush /\ isStraight /\ isRoyalFlush(ranks) THEN RoyalFlush
       ELSE IF isFlush /\ isStraight THEN StraightFlush
       ELSE IF counts = <<4, 1>> THEN FourOfAKind
       ELSE IF counts = <<3, 2>> THEN FullHouse
       ELSE IF isFlush THEN Flush
       ELSE IF isStraight THEN Straight
       ELSE IF counts = <<3, 1, 1>> THEN ThreeOfAKind
       ELSE IF counts = <<2, 2, 1>> THEN TwoPair
       ELSE IF counts = <<2, 1, 1, 1>> THEN OnePair
       ELSE HighCard

(***************************************************************************)
(* High-hand helpers and comparator                                        *)
(***************************************************************************)
Thrown == 0 - 99            \* compareHighHands left by an uncaught exception
ThrownCard == [suit |-> Throws, rank |-> Throws]
UndefinedRank == "undefined"

\* rankToValue(undefined) falls through the switch and returns undefined
rankToValueJs(r) == IF r = UndefinedRank THEN Undefined ELSE rankToValue(r)

\* cards.reduce((max, card) => value(card) > value(max) ? card : max):
\* the first card of the highest value; a TypeError on an empty array
getHighCard(cards) ==
    IF cards = <<>> THEN ThrownCard
    ELSE LET top == MathMax(highValues(cards))
             i == CHOOSE k \in 1..Len(cards) :
                      /\ rankToValue(cards[k].rank) = top
                      /\ \A j \in 1..(k - 1) : rankToValue(cards[j].rank) # top
         IN cards[i]

\* getStraightHighCard without the special case of the wheel
getStraightHighCardAceHigh(cards) == getHighCard(cards)

getStraightHighCard(cards) ==
    LET values == SortAsc(highValues(cards))
    IN IF values = <<2, 3, 4, 5, 14>>
       THEN LET i == CHOOSE k \in 1..Len(cards) :
                         /\ cards[k].rank = "5"
                         /\ \A j \in 1..(k - 1) : cards[j].rank # "5"
            IN cards[i]
       ELSE getHighCard(cards)

getRepeatedRank(cards, count) ==
    LET keys == rankCountKeys(cards)
        hits == SelectSeq(keys, LAMBDA r : rankCount(cards, r) = count)
    IN IF hits = <<>> THEN Throws ELSE hits[1]

\* getTwoPairRanks without the sort: the pairs in the order Object.entries
\* yields them
getTwoPairRanksUnsorted(cards) ==
    LET keys == rankCountKeys(cards)
        pairs == SelectSeq(keys, LAMBDA r : rankCount(cards, r) = 2)
    IN [high |-> IF Len(pairs) >= 1 THEN pairs[1] ELSE UndefinedRank,
        low |-> IF Len(pairs) >= 2 THEN pairs[2] ELSE UndefinedRank]

getTwoPairRanks(cards) ==
    LET keys == rankCountKeys(cards)
        two == SelectSeq(keys, LAMBDA r : rankCount(cards, r) = 2)
        sorted == SortDesc([i \in 1..Len(two) |-> rankToValue(two[i])])
        pairs == [i \in 1..Len(sorted) |-> ALL_RANKS[sorted[i] - 1]]
    IN [high |-> IF Len(pairs) >= 1 THEN pairs[1] ELSE UndefinedRank,
        low |-> IF Len(pairs) >= 2 THEN pairs[2] ELSE UndefinedRank]

\* firstDifference returning -1 on both branches
firstDifferenceSameSign(a, b, rest) ==
    IF JsGt(a, b) THEN 0 - 1 ELSE IF JsLt(a, b) THEN 0 - 1 ELSE rest

\* if (a > b) return -1; if (a < b) return 1; otherwise go on with rest
firstDifference(a, b, rest) ==
    IF JsGt(a, b) THEN 0 - 1 ELSE IF JsLt(a, b) THEN 1 ELSE rest

RECURSIVE compareValuesFrom(_, _, _, _)
\* for (i...; i < n; i++) { if (v1[i] > v2[i]) return -1; if (v1[i] < v2[i]) return 1 }
\* return 0, from position i (1-based) on
compareValuesFrom(values1, values2, i, n) ==
    IF i > n THEN 0
    ELSE firstDifference(At(values1, i), At(values2, i),
                         compareValuesFrom(values1, values2, i + 1, n))

\* the values of the cards whose rank is none of the excluded ranks
otherValues(cards, excluded) ==
    highValues(SelectSeq(cards, LAMBDA c : c.rank \notin excluded))

compareStraight(h1, h2) ==
    LET high1 == getStraightHighCard(h1)
        high2 == getStraightHighCard(h2)
    IN IF high1 = ThrownCard \/ high2 = ThrownCard THEN Thrown
       ELSE firstDifference(rankToValue(high1.rank), rankToValue(high2.rank), 0)

compareFourOfAKind(h1, h2) ==
    LET quad1 == getRepeatedRank(h1, 4)
        quad2 == getRepeatedRank(h2, 4)
    IN IF quad1 = Throws \/ quad2 = Throws THEN Thrown
       ELSE firstDifference(rankToValue(quad1), rankToValue(quad2),
                firstDifference(MathMax(otherValues(h1, {quad1})),
                                MathMax(otherValues(h2, {quad2})), 0))

compareFullHouse(h1, h2) ==
    LET trip1 == getRepeatedRank(h1, 3)
        trip2 == getRepeatedRank(h2, 3)
        pair1 == getRepeatedRank(h1, 2)
        pair2 == getRepeatedRank(h2, 2)
    IN IF trip1 = Throws \/ trip2 = Throws THEN Thrown
       ELSE IF rankToValue(trip1) > rankToValue(trip2) THEN 0 - 1
       ELSE IF rankToValue(trip1) < rankToValue(trip2) THEN 1
       ELSE IF pair1 = Throws \/ pair2 = Throws THEN Thrown
       ELSE firstDifference(rankToValue(pair1), rankToValue(pair2), 0)

compareAllCards(h1, h2) ==
    compareValuesFrom(SortDesc(highValues(h1)), SortDesc(highValues(h2)), 1, 5)

\* compareRepeatedThenKickers stopping after the repeated rank
compareRepeatedOnly(h1, h2, count) ==
    LET rep1 == getRepeatedRank(h1, count)
        rep2 == getRepeatedRank(h2, count)
    IN IF rep1 = Throws \/ rep2 = Throws THEN Thrown
       ELSE firstDifference(rankToValue(rep1), rankToValue(rep2), 0)

\* ThreeOfAKind (count = 3) and OnePair (count = 2): the repeated rank, then
\* the kickers
compareRepeatedThenKickers(h1, h2, count) ==
    LET rep1 == getRepeatedRank(h1, count)
        rep2 == getRepeatedRank(h2, count)
        kickers1 == SortDesc(otherValues(h1, {rep1}))
        kickers2 == SortDesc(otherValues(h2, {rep2}))
    IN IF rep1 = Throws \/ rep2 = Throws THEN Thrown
       ELSE firstDifference(rankToValue(rep1), rankToValue(rep2),
                compareValuesFrom(kickers1, kickers2, 1, Len(kickers1)))

compareTwoPair(h1, h2) ==
    LET pairs1 == getTwoPairRanks(h1)
        pairs2 == getTwoPairRanks(h2)
    IN firstDifference(rankToValueJs(pairs1.high), rankToValueJs(pairs2.high),
         firstDifference(rankToValueJs(pairs1.low), rankToValueJs(pairs2.low),
           firstDifference(MathMax(otherValues(h1, {pairs1.high, pairs1.low})),
                           MathMax(otherValues(h2, {pairs2.high, pairs2.low})), 0)))

compareHighHands(h1, h2, r) ==
    CASE r = RoyalFlush -> 0
      [] r \in {StraightFlush, Straight} -> compareStraight(h1, h2)
      [] r = FourOfAKind -> compareFourOfAKind(h1, h2)
      [] r = FullHouse -> compareFullHouse(h1, h2)
      [] r \in {Flush, HighCard} -> compareAllCards(h1, h2)
      [] r = ThreeOfAKind -> compareRepeatedThenKickers(h1, h2, 3)
      [] r = TwoPair -> compareTwoPair(h1, h2)
      [] r = OnePair -> compareRepeatedThenKickers(h1, h2, 2)
      [] OTHER -> 0

(***************************************************************************)
(* Bounds of the model                                                     *)
(***************************************************************************)
\* the classifier is applied to the hands of a deck of the LowRanks lowest
\* ranks ("2", "3", ...) and the HighRanks highest ranks (..., "K", "A"),
\* in all four suits
LowRanks == 4
HighRanks == 5

deckRanks ==
    SelectSeq(ALL_RANKS, LAMBDA r : \/ rankToValue(r) <= LowRanks + 1
                                    \/ rankToValue(r) >= 15 - HighRanks)

\* Deck.reset before the shuffle: for each suit, for each rank
deckOf(suits, ranks) ==
    [i \in 1..(Len(suits) * Len(ranks)) |->
        createCard(suits[((i - 1) \div Len(ranks)) + 1],
                   ranks[((i - 1) % Len(ranks)) + 1])]

\* a hand is well formed when it holds exactly 5 distinct (suit, rank) cards
isFiveCardHand(cards) == Len(cards) = 5 /\ Cardinality(Range(cards)) = 5

NoHand == <<>>
NoResult == 0 - 50

\* combinations is not being called
noItems == itemsArg = <<>> /\ kArg = 0

\* findBestHand has not been called
noCalls == calls = <<>>

\* the variables of the application around the evaluator: the round-result
\* storage and the hand-reading screen
storageVars == <<storage, savers, saved>>
screenVars == <<screen, heap, timers>>
appVars == <<storageVars, screenVars>>

\* the hand-reading screen is not mounted
notMounted == [mounted |-> FALSE]
screenIdle == screen = notMounted /\ heap = <<>> /\ timers = <<>>

\* no round result is stored, saveRoundResult has not been called and the
\* screen is not mounted
appIdle == storage = Null /\ savers = <<>> /\ saved = <<>> /\ screenIdle

(***************************************************************************)
(* SpecHand: the classifier applied to one hand                            *)
(***************************************************************************)
engineIdle ==
    /\ holeCards = <<>> /\ communityCards = <<>> /\ cardCount = 0
    /\ allCombinations = <<>> /\ idx = 0
    /\ bestHighRank = HighCard /\ bestHighHand = <<>> /\ bestLowHand = Null

engineVars == <<holeCards, communityCards, cardCount, allCombinations, idx,
                bestHighRank, bestHighHand, bestLowHand>>

handVars == <<hand1, hand2, hand3, rank, itemsArg, kArg>>

\* hand is one of the 5-card hands of the deck, its cards in deck order
fiveOf(deck, hand) ==
    LET n == Len(deck)
    IN \E a \in 1..n : \E b \in (a + 1)..n : \E c \in (b + 1)..n :
       \E d \in (c + 1)..n : \E e \in (d + 1)..n :
           hand = <<deck[a], deck[b], deck[c], deck[d], deck[e]>>

InitHand ==
    /\ pc = "hand"
    /\ fiveOf(deckOf(ALL_SUITS, deckRanks), hand1)
    /\ hand2 = NoHand /\ hand3 = NoHand
    /\ rank = HighCard
    /\ result = NoResult
    /\ noItems /\ noCalls /\ appIdle
    /\ engineIdle

EvaluateHand ==
    /\ pc = "hand"
    /\ pc' = "evaluateHand"
    /\ result' = evaluateHand(hand1)
    /\ UNCHANGED <<handVars, appVars, calls, engineVars>>

NextHand == EvaluateHand

SpecHand == InitHand /\ [][NextHand]_vars

(***************************************************************************)
(* SpecLow: the low qualifier applied to one hand                          *)
(***************************************************************************)
\* the hands are those of a deck of all the ranks in the first LowSuits suits
LowSuits == 2

InitLow ==
    /\ pc = "hand"
    /\ fiveOf(deckOf(SubSeq(ALL_SUITS, 1, LowSuits), ALL_RANKS), hand1)
    /\ hand2 = NoHand /\ hand3 = NoHand
    /\ rank = HighCard
    /\ result = NoResult
    /\ noItems /\ noCalls /\ appIdle
    /\ engineIdle

IsQualifyingLow ==
    /\ pc = "hand"
    /\ pc' = "isQualifyingLow"
    /\ result' = isQualifyingLow(hand1)
    /\ UNCHANGED <<handVars, appVars, calls, engineVars>>

NextLow == IsQualifyingLow

SpecLow == InitLow /\ [][NextLow]_vars

(***************************************************************************)
(* SpecMalformed: the classifier and the high comparator applied to a hand *)
(* that is not five distinct cards                                         *)
(***************************************************************************)
\* the malformed hands hold at most MaxHandLen cards, drawn with repetition
\* from MalformedCards cards
MaxHandLen == 6
MalformedCards == 5

malformedDeck ==
    SubSeq(deckOf(SubSeq(ALL_SUITS, 1, 2), SubSeq(ALL_RANKS, 10, 13)), 1, MalformedCards)

\* the hands of k cards of the deck, in deck order, a card possibly repeated
repeatingHands(deck, k) ==
    {[i \in 1..k |-> deck[t[i]]] :
        t \in {u \in [1..k -> 1..Len(deck)] : \A i \in 1..(k - 1) : u[i] <= u[i + 1]}}

InitMalformed ==
    /\ pc = "hand"
    /\ \E k \in 0..MaxHandLen :
          /\ hand1 \in repeatingHands(malformedDeck, k)
          /\ ~isFiveCardHand(hand1)
    /\ hand2 = SubSeq(malformedDeck, 1, 5)
    /\ hand3 = NoHand
    /\ rank \in HandRank
    /\ result = NoResult
    /\ noItems /\ noCalls /\ appIdle
    /\ engineIdle

CompareHighHands ==
    /\ pc = "hand"
    /\ pc' = "compareHighHands"
    /\ result' = compareHighHands(hand1, hand2, rank)
    /\ UNCHANGED <<handVars, appVars, calls, engineVars>>

NextMalformed == EvaluateHand \/ CompareHighHands

SpecMalformed == InitMalformed /\ [][NextMalformed]_vars

(***************************************************************************)
(* Best-hand search: findBestHand, one action per step of the call         *)
(***************************************************************************)
\* for (const holeCombo of holeCombos) for (const boardCombo of boardCombos)
\*     allCombinations.push([holeCombo, boardCombo])
pushAll(holeCombos, boardCombos) ==
    [i \in 1..(Len(holeCombos) * Len(boardCombos)) |->
        <<holeCombos[((i - 1) \div Len(boardCombos)) + 1],
          boardCombos[((i - 1) % Len(boardCombos)) + 1]>>]

\* buildAllCombinations with the flexible policy applied whatever the card count
buildAllCombinationsAlwaysFlexible(hole, community, count) ==
    pushAll(combinations(hole, 1), combinations(community, 4))
    \o pushAll(combinations(hole, 2), combinations(community, 3))

\* buildAllCombinations with the 1 + 4 split of the flexible policy left out
buildAllCombinationsNoOnePlusFour(hole, community, count) ==
    pushAll(combinations(hole, 2), combinations(community, 3))

\* allCombinations once the enumeration policy has run
buildAllCombinations(hole, community, count) ==
    IF count = 2
    THEN pushAll(combinations(hole, 1), combinations(community, 4))
         \o pushAll(combinations(hole, 2), combinations(community, 3))
    ELSE pushAll(combinations(hole, 2), combinations(community, 3))

\* foldHigh without the comparator call on an equal category
foldHighNoTieBreak(bestRank, bestHand, fiveCardHand) ==
    LET highRank == evaluateHand(fiveCardHand)
    IN IF Len(bestHand) = 0 THEN <<highRank, fiveCardHand>>
       ELSE IF highRank > bestRank THEN <<highRank, fiveCardHand>>
       ELSE <<bestRank, bestHand>>

\* foldHigh forgetting bestHighHand = fiveCardHand when the category is higher
foldHighKeepsOldHand(bestRank, bestHand, fiveCardHand) ==
    LET highRank == evaluateHand(fiveCardHand)
    IN IF Len(bestHand) = 0 THEN <<highRank, fiveCardHand>>
       ELSE IF highRank > bestRank THEN <<highRank, bestHand>>
       ELSE IF highRank = bestRank
            THEN IF compareHighHands(fiveCardHand, bestHand, highRank) < 0
                 THEN <<bestRank, fiveCardHand>>
                 ELSE <<bestRank, bestHand>>
       ELSE <<bestRank, bestHand>>

\* foldHigh replacing the running best on a tie as well (comparison <= 0)
foldHighReplaceOnTie(bestRank, bestHand, fiveCardHand) ==
    LET highRank == evaluateHand(fiveCardHand)
    IN IF Len(bestHand) = 0 THEN <<highRank, fiveCardHand>>
       ELSE IF highRank > bestRank THEN <<highRank, fiveCardHand>>
       ELSE IF highRank = bestRank
            THEN IF compareHighHands(fiveCardHand, bestHand, highRank) <= 0
                 THEN <<bestRank, fiveCardHand>>
                 ELSE <<bestRank, bestHand>>
       ELSE <<bestRank, bestHand>>

\* the high half of one iteration of the fold: the new
\* <<bestHighRank, bestHighHand>>
foldHigh(bestRank, bestHand, fiveCardHand) ==
    LET highRank == evaluateHand(fiveCardHand)
    IN IF Len(bestHand) = 0 THEN <<highRank, fiveCardHand>>
       ELSE IF highRank > bestRank THEN <<highRank, fiveCardHand>>
       ELSE IF highRank = bestRank
            THEN IF compareHighHands(fiveCardHand, bestHand, highRank) < 0
                 THEN <<bestRank, fiveCardHand>>
                 ELSE <<bestRank, bestHand>>
       ELSE <<bestRank, bestHand>>

\* foldLow keeping the first qualifying low it meets
foldLowKeepFirst(bestLow, fiveCardHand) ==
    IF isQualifyingLow(fiveCardHand)
    THEN IF bestLow = Null THEN fiveCardHand ELSE bestLow
    ELSE bestLow

\* the low half of one iteration of the fold: the new bestLowHand
foldLow(bestLow, fiveCardHand) ==
    IF isQualifyingLow(fiveCardHand)
    THEN IF bestLow = Null THEN fiveCardHand
         ELSE IF compareLowHands(fiveCardHand, bestLow) < 0 THEN fiveCardHand
         ELSE bestLow
    ELSE bestLow

\* the ranks from the king round through the ace to the queen: the decks of
\* the search are cut from its front, so that they hold a card too high for a
\* low, the ace and the lowest ranks
kingFirstRanks == <<"K", "A">> \o SubSeq(ALL_RANKS, 1, 11)

\* the search runs on the cards of a deck of at most FindCards cards: the
\* first s suits of the first FindCards \div s ranks, for s = 1..4
FindCards == 8
\* at most MaxHole hole cards and MaxCommunity community cards are passed
MaxHole == 3
MaxCommunity == 5

findDeck(s) == deckOf(SubSeq(ALL_SUITS, 1, s), SubSeq(kingFirstRanks, 1, FindCards \div s))

\* the cards of deck at the positions of S, in deck order
pick(deck, S) ==
    [i \in 1..Cardinality(S) |->
        deck[CHOOSE x \in S : Cardinality({y \in S : y < x}) = i - 1]]

Init ==
    /\ pc = "findBestHand"
    /\ \E s \in 1..Len(ALL_SUITS) :
         LET deck == findDeck(s)
             all == 1..Len(deck)
         IN \E H \in SUBSET all : \E C \in SUBSET (all \ H) :
               /\ Cardinality(H) <= MaxHole
               /\ Cardinality(C) <= MaxCommunity
               /\ holeCards = pick(deck, H)
               /\ communityCards = pick(deck, C)
    /\ cardCount \in {2, 4, 5}
    /\ allCombinations = <<>>
    /\ idx = 0
    /\ bestHighRank = HighCard
    /\ bestHighHand = <<>>
    /\ bestLowHand = Null
    /\ hand1 = NoHand /\ hand2 = NoHand /\ hand3 = NoHand
    /\ rank = HighCard /\ result = NoResult
    /\ noItems /\ noCalls /\ appIdle

Enumerate ==
    /\ pc = "findBestHand"
    /\ allCombinations' = buildAllCombinations(holeCards, communityCards, cardCount)
    /\ pc' = "fold"
    /\ UNCHANGED <<handVars, appVars, calls, result, holeCards, communityCards, cardCount,
                   idx, bestHighRank, bestHighHand, bestLowHand>>

FoldStep ==
    /\ pc = "fold"
    /\ idx < Len(allCombinations)
    /\ LET fiveCardHand == allCombinations[idx + 1][1] \o allCombinations[idx + 1][2]
           high == foldHigh(bestHighRank, bestHighHand, fiveCardHand)
       IN /\ bestHighRank' = high[1]
          /\ bestHighHand' = high[2]
          /\ bestLowHand' = foldLow(bestLowHand, fiveCardHand)
    /\ idx' = idx + 1
    /\ UNCHANGED <<pc, handVars, appVars, calls, result, holeCards, communityCards,
                   cardCount, allCombinations>>

Return ==
    /\ pc = "fold"
    /\ idx = Len(allCombinations)
    /\ pc' = "done"
    /\ result' = "HandEvaluation"
    /\ UNCHANGED <<handVars, appVars, calls, holeCards, communityCards, cardCount,
                   allCombinations, idx, bestHighRank, bestHighHand, bestLowHand>>

Next == Enumerate \/ FoldStep \/ Return

Spec == Init /\ [][Next]_vars

(***************************************************************************)
(* Claims about the best-hand search (specification Spec)                  *)
(***************************************************************************)
\* the k-element sets of positions of a sequence
positions(seq, k) == {S \in SUBSET (1..Len(seq)) : Cardinality(S) = k}

\* the hands made of h of the hole cards followed by c of the community cards
splitHands(h, c) ==
    {pick(holeCards, S) \o pick(communityCards, T) :
        S \in positions(holeCards, h), T \in positions(communityCards, c)}

\* the legal candidate set of the rule in force
legalHands ==
    IF cardCount = 2 THEN splitHands(1, 4) \cup splitHands(2, 3) ELSE splitHands(2, 3)

\* the hands the fold is run over
evaluatedHands ==
    {allCombinations[k][1] \o allCombinations[k][2] : k \in 1..Len(allCombinations)}

holeUsed(hand) == Cardinality(Range(hand) \cap Range(holeCards))
communityUsed(hand) == Cardinality(Range(hand) \cap Range(communityCards))

\* C2: when findBestHand returns, no legal candidate has a higher category
\* than bestHighRank and no legal candidate of the category bestHighRank beats
\* bestHighHand under compareHighHands.
C2_BestHighIsMaximal ==
    pc = "done" =>
        \A hand \in legalHands :
            /\ evaluateHand(hand) <= bestHighRank
            /\ evaluateHand(hand) = bestHighRank =>
                   compareHighHands(hand, bestHighHand, bestHighRank) # 0 - 1

\* a returned best hand that beats one candidate of its own category and
\* outranks another of a lower category
C2_Witness ==
    /\ pc = "done"
    /\ \E a, b \in legalHands :
          /\ evaluateHand(a) = bestHighRank
          /\ compareHighHands(bestHighHand, a, bestHighRank) = 0 - 1
          /\ evaluateHand(b) < bestHighRank

\* C3: when findBestHand returns, bestLowHand is null exactly when no legal
\* candidate qualifies as a low; otherwise it is a legal candidate that
\* qualifies and no qualifying candidate is strictly lower.
C3_BestLowIsLowest ==
    pc = "done" =>
        /\ bestLowHand = Null <=> \A hand \in legalHands : ~isQualifyingLow(hand)
        /\ bestLowHand # Null =>
              /\ bestLowHand \in legalHands
              /\ isQualifyingLow(bestLowHand)
              /\ \A hand \in legalHands :
                     isQualifyingLow(hand) =>
                         compareLowHands(hand, bestLowHand) # 0 - 1

\* a returned low that is strictly lower than another qualifying candidate,
\* with a candidate that does not qualify as well
C3_Witness ==
    /\ pc = "done"
    /\ bestLowHand # Null
    /\ \E a, b \in legalHands :
          /\ isQualifyingLow(a)
          /\ compareLowHands(bestLowHand, a) = 0 - 1
          /\ ~isQualifyingLow(b)

\* C4: under the fixed two-plus-three rule (cardCount other than 2) every
\* hand the fold evaluates, the returned bestHighHand and a non-null
\* bestLowHand are made of exactly 2 hole cards and exactly 3 community cards.
C4_FixedRuleTwoPlusThree ==
    cardCount # 2 /\ pc \in {"fold", "done"} =>
        /\ \A hand \in evaluatedHands :
              Len(hand) = 5 /\ holeUsed(hand) = 2 /\ communityUsed(hand) = 3
        /\ bestHighHand # <<>> =>
              holeUsed(bestHighHand) = 2 /\ communityUsed(bestHighHand) = 3
        /\ bestLowHand # Null =>
              holeUsed(bestLowHand) = 2 /\ communityUsed(bestLowHand) = 3

\* a fixed-rule call that returned a hand although a 1 + 4 split existed
C4_Witness ==
    /\ pc = "done" /\ cardCount # 2
    /\ bestHighHand # <<>>
    /\ splitHands(1, 4) # {}

\* C5: under the two-card flexible rule (cardCount = 2) the hands the fold
\* evaluates are exactly the 1 + 4 hands and the 2 + 3 hands, and the
\* returned hands use 1 or 2 hole cards, the rest from the community cards.
C5_FlexibleRuleBothSplits ==
    cardCount = 2 /\ pc \in {"fold", "done"} =>
        /\ evaluatedHands = splitHands(1, 4) \cup splitHands(2, 3)
        /\ bestHighHand # <<>> =>
              /\ holeUsed(bestHighHand) \in {1, 2}
              /\ holeUsed(bestHighHand) + communityUsed(bestHighHand) = 5
        /\ bestLowHand # Null =>
              /\ holeUsed(bestLowHand) \in {1, 2}
              /\ holeUsed(bestLowHand) + communityUsed(bestLowHand) = 5

\* a flexible-rule call that had hands of both splits and returned a 1 + 4 hand
C5_Witness ==
    /\ pc = "done" /\ cardCount = 2
    /\ splitHands(1, 4) # {} /\ splitHands(2, 3) # {}
    /\ holeUsed(bestHighHand) = 1

\* no legal 5-card combination exists for the rule in force
insufficientCards ==
    IF cardCount = 2
    THEN ~ \/ Len(holeCards) >= 1 /\ Len(communityCards) >= 4
           \/ Len(holeCards) >= 2 /\ Len(communityCards) >= 3
    ELSE Len(holeCards) < 2 \/ Len(communityCards) < 3

\* C6: called with too few hole or community cards for the rule, findBestHand
\* reports an error and returns no Evaluation.
C6_InsufficientCardsAreAnError ==
    pc = "done" /\ insufficientCards => result = "Error"

(***************************************************************************)
(* Claims about the classifier (specifications SpecHand, SpecMalformed)    *)
(***************************************************************************)
allSameSuit(hand) == \A i, j \in 1..Len(hand) : hand[i].suit = hand[j].suit

highValueSet(hand) == {rankToValue(hand[i].rank) : i \in 1..Len(hand)}

\* five consecutive high values, or the wheel
isStraightHand(hand) ==
    \/ \E lo \in 2..10 : highValueSet(hand) = lo..(lo + 4)
    \/ highValueSet(hand) = {14, 2, 3, 4, 5}

\* the number of ranks that occur exactly n times in the hand
ranksOccurring(hand, n) ==
    Cardinality({r \in Range(ALL_RANKS) :
                    Cardinality({i \in 1..Len(hand) : hand[i].rank = r}) = n})

\* the count-shape of the hand is made of fours ranks of four cards, threes
\* of three, twos of two and ones of one
hasShape(hand, fours, threes, twos, ones) ==
    /\ ranksOccurring(hand, 4) = fours
    /\ ranksOccurring(hand, 3) = threes
    /\ ranksOccurring(hand, 2) = twos
    /\ ranksOccurring(hand, 1) = ones

\* the first category of the precedence list that the hand matches
firstMatch(hand) ==
    IF /\ allSameSuit(hand) /\ isStraightHand(hand)
       /\ {hand[i].rank : i \in 1..Len(hand)} = {"A", "K", "Q", "J", "10"}
    THEN RoyalFlush
    ELSE IF allSameSuit(hand) /\ isStraightHand(hand) THEN StraightFlush
    ELSE IF hasShape(hand, 1, 0, 0, 1) THEN FourOfAKind
    ELSE IF hasShape(hand, 0, 1, 1, 0) THEN FullHouse
    ELSE IF allSameSuit(hand) THEN Flush
    ELSE IF isStraightHand(hand) THEN Straight
    ELSE IF hasShape(hand, 0, 1, 0, 2) THEN ThreeOfAKind
    ELSE IF hasShape(hand, 0, 0, 2, 1) THEN TwoPair
    ELSE IF hasShape(hand, 0, 0, 1, 3) THEN OnePair
    ELSE HighCard

\* C1: for every hand of 5 distinct cards evaluateHand returns one category,
\* the first that matches in the precedence RoyalFlush, StraightFlush,
\* FourOfAKind, FullHouse, Flush, Straight, ThreeOfAKind, TwoPair, OnePair,
\* HighCard.
C1_FirstMatchingCategory ==
    pc = "evaluateHand" /\ isFiveCardHand(hand1) =>
        result \in HandRank /\ result = firstMatch(hand1)

\* a hand that matches both StraightFlush and, further down the list, Flush
\* and Straight, classified as StraightFlush
C1_Witness ==
    /\ pc = "evaluateHand" /\ isFiveCardHand(hand1)
    /\ allSameSuit(hand1) /\ isStraightHand(hand1)
    /\ result = StraightFlush

\* C7: evaluateHand and compareHighHands reject a hand that is not exactly 5
\* distinct cards: they return neither a category nor a comparison result.
C7_MalformedHandsAreRejected ==
    pc \in {"evaluateHand", "compareHighHands"} /\ ~isFiveCardHand(hand1) =>
        result = Thrown

(***************************************************************************)
(* Claims about the low qualifier (specification SpecLow)                  *)
(***************************************************************************)
\* C10: isQualifyingLow is true exactly when all 5 cards have a low value
\* (ace = 1) of at most 8 and the 5 ranks are pairwise distinct, whatever the
\* suits.
C10_QualifyingLow ==
    pc = "isQualifyingLow" =>
        (result <=>
            /\ \A i \in 1..5 : rankToLowValue(hand1[i].rank) <= 8
            /\ \A i, j \in 1..5 : i # j => hand1[i].rank # hand1[j].rank)

\* the wheel in mixed suits, found to qualify
C10_Witness ==
    /\ pc = "isQualifyingLow"
    /\ {hand1[i].rank : i \in 1..5} = {"A", "2", "3", "4", "5"}
    /\ ~allSameSuit(hand1)
    /\ result = TRUE

(***************************************************************************)
(* SpecCompare: compareHighHands on three hands of one category            *)
(***************************************************************************)
PairedRanks == 4
DistinctRanks == 6

aceFirstRanks == <<"A">> \o SubSeq(ALL_RANKS, 1, 12)

\* the position of card i among the cards of its rank in the rank tuple t
copyIndex(t, i) == Cardinality({j \in 1..i : t[j] = t[i]})

\* hands with repeated ranks: every choice of 5 ranks, at most 4 of a kind,
\* among the first PairedRanks ranks; the copies of a rank take the suits in
\* the order of ALL_SUITS or in the reverse order
pairedHands ==
    LET tuples == {t \in [1..5 -> 1..PairedRanks] :
                      /\ \A i \in 1..4 : t[i] <= t[i + 1]
                      /\ \A i \in 1..5 : copyIndex(t, i) <= 4}
    IN {[i \in 1..5 |-> createCard(ALL_SUITS[copyIndex(t, i)],
                                   aceFirstRanks[t[i]])] : t \in tuples}
       \cup
       {[i \in 1..5 |-> createCard(ALL_SUITS[5 - copyIndex(t, i)],
                                   aceFirstRanks[t[i]])] : t \in tuples}

\* two one-suit layouts and two layouts with one card of another suit
suitLayouts ==
    {<<"Hearts", "Hearts", "Hearts", "Hearts", "Hearts">>,
     <<"Spades", "Spades", "Spades", "Spades", "Spades">>,
     <<"Diamonds", "Hearts", "Hearts", "Hearts", "Hearts">>,
     <<"Spades", "Spades", "Spades", "Spades", "Clubs">>}

\* hands of 5 different ranks of the sequence ranks, in each suit layout
distinctHands(ranks) ==
    {[i \in 1..5 |-> createCard(layout[i], pick(ranks, S)[i])] :
        S \in positions(ranks, 5), layout \in suitLayouts}

royalHands ==
    {[i \in 1..5 |-> createCard(suit, SubSeq(ALL_RANKS, 9, 13)[i])] :
        suit \in Range(ALL_SUITS)}

\* the hands of each category, as evaluateHand classifies them
comparePool ==
    [r \in HandRank |->
        {h \in pairedHands
                 \cup distinctHands(SubSeq(aceFirstRanks, 1, DistinctRanks))
                 \cup royalHands : evaluateHand(h) = r}]

InitCompare ==
    /\ pc = "hands"
    /\ rank \in HandRank
    /\ hand1 \in comparePool[rank]
    /\ hand2 \in comparePool[rank]
    /\ hand3 \in comparePool[rank]
    /\ result = NoResult
    /\ noItems /\ noCalls /\ appIdle
    /\ engineIdle

\* compareHighHands called on the pairs of the three hands
CompareThree ==
    /\ pc = "hands"
    /\ pc' = "compared"
    /\ result' = [aa |-> compareHighHands(hand1, hand1, rank),
                  ab |-> compareHighHands(hand1, hand2, rank),
                  ba |-> compareHighHands(hand2, hand1, rank),
                  bc |-> compareHighHands(hand2, hand3, rank),
                  ac |-> compareHighHands(hand1, hand3, rank)]
    /\ UNCHANGED <<handVars, appVars, calls, engineVars>>

NextCompare == CompareThree

SpecCompare == InitCompare /\ [][NextCompare]_vars

\* C8: for every category, compareHighHands on 5-card hands A, B, C of that
\* category is a strict weak ordering: A against A is 0, A against B is the
\* negation of B against A, beating is transitive and tying is transitive.
C8_StrictWeakOrdering ==
    pc = "compared" =>
        /\ result.aa = 0
        /\ result.ab \in {0 - 1, 0, 1}
        /\ result.ab = 0 - result.ba
        /\ (result.ab = 0 - 1 /\ result.bc = 0 - 1 => result.ac = 0 - 1)
        /\ (result.ab = 0 /\ result.bc = 0 => result.ac = 0)

\* A beats B on a kicker, B beats C, and A beats C
C8_Witness ==
    /\ pc = "compared"
    /\ rank = TwoPair
    /\ result.ab = 0 - 1 /\ result.bc = 0 - 1 /\ result.ac = 0 - 1
    /\ getTwoPairRanks(hand1) = getTwoPairRanks(hand2)

(***************************************************************************)
(* SpecStraight: compareHighHands on two straights                         *)
(***************************************************************************)
straightPool ==
    [r \in {Straight, StraightFlush} |->
        {h \in distinctHands(aceFirstRanks) : evaluateHand(h) = r}]

InitStraight ==
    /\ pc = "hand"
    /\ rank \in {Straight, StraightFlush}
    /\ hand1 \in straightPool[rank]
    /\ hand2 \in straightPool[rank]
    /\ hand3 = NoHand
    /\ result = NoResult
    /\ noItems /\ noCalls /\ appIdle
    /\ engineIdle

NextStraight == CompareHighHands

SpecStraight == InitStraight /\ [][NextStraight]_vars

isWheel(hand) == {hand[i].rank : i \in 1..Len(hand)} = {"A", "2", "3", "4", "5"}

\* the value a straight is compared by: 5 for the wheel, else its top card
straightValue(hand) ==
    IF isWheel(hand) THEN 5
    ELSE CHOOSE v \in highValueSet(hand) : \A w \in highValueSet(hand) : w <= v

\* C9: two Straights, or two StraightFlushes, are compared by the value of
\* the straight's high card, the wheel A-2-3-4-5 counting as 5: the wheel
\* loses to every other straight and ties with every wheel.
C9_WheelComparesAsFive ==
    pc = "compareHighHands" /\ rank \in {Straight, StraightFlush}
        /\ evaluateHand(hand1) = rank /\ evaluateHand(hand2) = rank =>
        /\ result = (IF straightValue(hand1) > straightValue(hand2) THEN 0 - 1
                     ELSE IF straightValue(hand1) < straightValue(hand2) THEN 1
                     ELSE 0)
        /\ (isWheel(hand1) /\ ~isWheel(hand2) => result = 1)
        /\ (~isWheel(hand1) /\ isWheel(hand2) => result = 0 - 1)
        /\ (isWheel(hand1) /\ isWheel(hand2) => result = 0)

\* a wheel loses to the six-high straight
C9_Witness ==
    /\ pc = "compareHighHands" /\ rank = Straight
    /\ evaluateHand(hand1) = Straight /\ evaluateHand(hand2) = Straight
    /\ isWheel(hand1) /\ straightValue(hand2) = 6
    /\ result = 1

(***************************************************************************)
(* SpecLowCompare: compareLowHands on two hands                            *)
(***************************************************************************)
\* the hands hold the ranks from the ace up to the rank LowCompareRanks, all
\* different, or ranks repeated among the first PairedRanks ranks
LowCompareRanks == 8

lowComparePool ==
    distinctHands(SubSeq(aceFirstRanks, 1, LowCompareRanks)) \cup pairedHands

InitLowCompare ==
    /\ pc = "hand"
    /\ hand1 \in lowComparePool
    /\ hand2 \in lowComparePool
    /\ hand3 = NoHand
    /\ rank = HighCard
    /\ result = NoResult
    /\ noItems /\ noCalls /\ appIdle
    /\ engineIdle

CompareLowHands ==
    /\ pc = "hand"
    /\ pc' = "compareLowHands"
    /\ result' = compareLowHands(hand1, hand2)
    /\ UNCHANGED <<handVars, appVars, calls, engineVars>>

NextLowCompare == CompareLowHands

SpecLowCompare == InitLowCompare /\ [][NextLowCompare]_vars

\* the low values (ace = 1) of a hand, from the highest to the lowest
sortedLowValues(hand) == SortDesc([i \in 1..Len(hand) |-> rankToLowValue(hand[i].rank)])

\* values a is lower than values b at the first position where they differ
lowerAtFirstDifference(a, b) ==
    \E i \in 1..5 : a[i] < b[i] /\ \A j \in 1..(i - 1) : a[j] = b[j]

\* C11: compareLowHands is the lexicographic comparison of the two hands' low
\* values (ace = 1) sorted descending: -1 when the first hand is lower at the
\* first differing position, 1 when the second is, 0 exactly when the five
\* sorted values agree, whatever the suits.
C11_LowHandsLexicographic ==
    pc = "compareLowHands" =>
        LET a == sortedLowValues(hand1)
            b == sortedLowValues(hand2)
        IN /\ result \in {0 - 1, 0, 1}
           /\ result = 0 - 1 <=> lowerAtFirstDifference(a, b)
           /\ result = 1 <=> lowerAtFirstDifference(b, a)
           /\ result = 0 <=> a = b

\* 8-7-6-5-3 against 8-7-6-5-4: the first hand is lower at the last position
C11_Witness ==
    /\ pc = "compareLowHands"
    /\ sortedLowValues(hand1) = <<8, 7, 6, 5, 3>>
    /\ sortedLowValues(hand2) = <<8, 7, 6, 5, 4>>
    /\ result = 0 - 1

(***************************************************************************)
(* SpecCombinations: combinations applied to one sequence                  *)
(***************************************************************************)
\* the sequences hold at most MaxItems items, each one of ItemValues values,
\* a value possibly repeated; k runs from -1 to MaxItems + 1
MaxItems == 5
ItemValues == 3

InitCombinations ==
    /\ pc = "items"
    /\ \E n \in 0..MaxItems : itemsArg \in [1..n -> 1..ItemValues]
    /\ kArg \in (0 - 1)..(MaxItems + 1)
    /\ hand1 = NoHand /\ hand2 = NoHand /\ hand3 = NoHand
    /\ rank = HighCard
    /\ result = NoResult
    /\ noCalls /\ appIdle
    /\ engineIdle

Combinations ==
    /\ pc = "items"
    /\ pc' = "combinations"
    /\ result' = combinations(itemsArg, kArg)
    /\ UNCHANGED <<handVars, appVars, calls, engineVars>>

NextCombinations == Combinations

SpecCombinations == InitCombinations /\ [][NextCombinations]_vars

\* C12: combinations returns exactly one empty subset when k <= 0, no subset
\* when k exceeds the length of the input, and the input itself as the sole
\* subset when k equals its length.
C12_CombinationsEdgeCases ==
    pc = "combinations" =>
        /\ kArg <= 0 => result = << <<>> >>
        /\ kArg > Len(itemsArg) => result = <<>>
        /\ kArg = Len(itemsArg) => result = <<itemsArg>>

\* k below zero answered by the one empty subset
C12_Witness ==
    /\ pc = "combinations"
    /\ kArg < 0 /\ Len(itemsArg) >= 2
    /\ result = << <<>> >>

\* the number of results equal to the subset v
timesReturned(v) == Cardinality({j \in 1..Len(result) : result[j] = v})

\* the number of k-element sets of positions whose items, in their original
\* order, make the subset v
timesChosen(v) ==
    Cardinality({S \in positions(itemsArg, kArg) : pick(itemsArg, S) = v})

\* C13: for 0 < k <= n, combinations returns each k-element position-subset
\* of the input exactly once, C(n, k) results in all, the items of each
\* subset in their original relative order.
C13_EverySubsetOnce ==
    pc = "combinations" /\ 0 < kArg /\ kArg <= Len(itemsArg) =>
        /\ Len(result) = Cardinality(positions(itemsArg, kArg))
        /\ \A j \in 1..Len(result) : timesChosen(result[j]) = timesReturned(result[j])
        /\ \A S \in positions(itemsArg, kArg) :
               timesReturned(pick(itemsArg, S)) = timesChosen(pick(itemsArg, S))

\* the ten 3-element subsets of five items, two of which have the same value
C13_Witness ==
    /\ pc = "combinations"
    /\ Len(itemsArg) = 5 /\ kArg = 3
    /\ itemsArg[1] = itemsArg[5] /\ itemsArg[2] # itemsArg[3]
    /\ Len(result) = 10

(***************************************************************************)
(* Claims about the order of the fold (specification Spec)                 *)
(***************************************************************************)
\* the i-th candidate of the enumeration
candidate(i) == allCombinations[i][1] \o allCombinations[i][2]

\* hand x is strictly better than hand y as a high hand
beatsHigh(x, y) ==
    \/ evaluateHand(x) > evaluateHand(y)
    \/ /\ evaluateHand(x) = evaluateHand(y)
       /\ compareHighHands(x, y, evaluateHand(x)) < 0

\* hand x is strictly better than hand y as a low hand
beatsLow(x, y) == compareLowHands(x, y) < 0

\* position j holds an unbeaten high candidate and every candidate before it
\* is beaten by it
earliestUnbeatenHigh(j) ==
    /\ \A i \in 1..Len(allCombinations) : ~beatsHigh(candidate(i), candidate(j))
    /\ \A i \in 1..(j - 1) : beatsHigh(candidate(j), candidate(i))

earliestUnbeatenLow(j) ==
    /\ isQualifyingLow(candidate(j))
    /\ \A i \in 1..Len(allCombinations) :
           isQualifyingLow(candidate(i)) => ~beatsLow(candidate(i), candidate(j))
    /\ \A i \in 1..(j - 1) :
           isQualifyingLow(candidate(i)) => beatsLow(candidate(j), candidate(i))

\* the hole-card subsets run in the outer loop, the 1 + 4 hands first
enumerationOrder ==
    LET n == Len(allCombinations)
    IN \A i \in 1..(n - 1) :
          /\ Len(allCombinations[i][1]) <= Len(allCombinations[i + 1][1])
          /\ allCombinations[i][1] # allCombinations[i + 1][1] =>
                 \A m \in (i + 1)..n : allCombinations[m][1] # allCombinations[i][1]

\* one iteration of the fold replaces a running best only by the candidate
\* at hand, and only when that candidate is strictly better
replacedOnlyByBetter ==
    pc = "fold" /\ idx < Len(allCombinations) =>
        /\ bestHighHand' # bestHighHand =>
               /\ bestHighHand' = candidate(idx + 1)
               /\ bestHighHand = <<>> \/ beatsHigh(candidate(idx + 1), bestHighHand)
        /\ bestLowHand' # bestLowHand =>
               /\ bestLowHand' = candidate(idx + 1)
               /\ isQualifyingLow(candidate(idx + 1))
               /\ bestLowHand = Null \/ beatsLow(candidate(idx + 1), bestLowHand)

firstSeenWins ==
    pc = "done" =>
        /\ enumerationOrder
        /\ allCombinations # <<>> =>
               \E j \in 1..Len(allCombinations) :
                   bestHighHand = candidate(j) /\ earliestUnbeatenHigh(j)
        /\ bestLowHand # Null =>
               \E j \in 1..Len(allCombinations) :
                   bestLowHand = candidate(j) /\ earliestUnbeatenLow(j)

\* C14: in the fold of findBestHand the running best high hand and the
\* running best low hand are replaced only by a strictly better candidate and
\* kept on a tie, so the hand returned is the earliest candidate in
\* enumeration order (hole subsets outer, community subsets inner, 1 + 4
\* before 2 + 3) among the candidates that no candidate beats.
C14_FirstSeenWins == [][replacedOnlyByBetter]_vars /\ []firstSeenWins

\* the returned high hand ties with a later candidate of the enumeration
C14_Witness ==
    /\ pc = "done"
    /\ \E j, m \in 1..Len(allCombinations) :
          /\ j < m
          /\ bestHighHand = candidate(j)
          /\ evaluateHand(candidate(m)) = bestHighRank
          /\ compareHighHands(candidate(m), bestHighHand, bestHighRank) = 0

(***************************************************************************)
(* SpecCalls: findBestHand called several times in a row                   *)
(***************************************************************************)
\* at most MaxCalls calls are made; the hole cards are 2 of the first
\* CallHoleCards cards of a one-suit deck (K, A, 2, 3, ...), the community
\* cards the other cards of the deck
MaxCalls == 3
CallHoleCards == 3

callDeck == findDeck(1)

\* initialLocals leaving in the locals what the call before left there
initialLocalsCarriedOver(previousRank, previousHand, previousLow) ==
    <<previousRank, previousHand, previousLow>>

\* let bestHighRank = HandRank.HighCard; let bestHighHand = [];
\* let bestLowHand = null: the locals of a call, whatever the call before
\* left in them
initialLocals(previousRank, previousHand, previousLow) == <<HighCard, <<>>, Null>>

InitCalls ==
    /\ pc = "idle"
    /\ hand1 = NoHand /\ hand2 = NoHand /\ hand3 = NoHand
    /\ rank = HighCard
    /\ result = NoResult
    /\ noItems /\ noCalls /\ appIdle
    /\ engineIdle

\* findBestHand is entered with its arguments and its fresh locals
Call ==
    /\ pc = "idle"
    /\ Len(calls) < MaxCalls
    /\ \E H \in positions(SubSeq(callDeck, 1, CallHoleCards), 2) :
          holeCards' = pick(callDeck, H)
    /\ communityCards' = SubSeq(callDeck, CallHoleCards + 1, Len(callDeck))
    /\ cardCount' \in {2, 4}
    /\ LET locals == initialLocals(bestHighRank, bestHighHand, bestLowHand)
       IN /\ bestHighRank' = locals[1]
          /\ bestHighHand' = locals[2]
          /\ bestLowHand' = locals[3]
    /\ allCombinations' = <<>>
    /\ idx' = 0
    /\ pc' = "findBestHand"
    /\ UNCHANGED <<handVars, appVars, calls, result>>

\* return { bestHighHand, bestHighRank, bestLowHand } to the caller
ReturnToCaller ==
    /\ pc = "fold"
    /\ idx = Len(allCombinations)
    /\ calls' = Append(calls, [holeCards |-> holeCards,
                               communityCards |-> communityCards,
                               cardCount |-> cardCount,
                               bestHighHand |-> bestHighHand,
                               bestHighRank |-> bestHighRank,
                               bestLowHand |-> bestLowHand])
    /\ pc' = "idle"
    /\ UNCHANGED <<handVars, appVars, result, engineVars>>

NextCalls == Call \/ Enumerate \/ FoldStep \/ ReturnToCaller

SpecCalls == InitCalls /\ [][NextCalls]_vars

sameInputs(a, b) ==
    /\ a.holeCards = b.holeCards
    /\ a.communityCards = b.communityCards
    /\ a.cardCount = b.cardCount

sameEvaluation(a, b) ==
    /\ a.bestHighHand = b.bestHighHand
    /\ a.bestHighRank = b.bestHighRank
    /\ a.bestLowHand = b.bestLowHand

\* C15: two calls of findBestHand with the same hole cards, the same
\* community cards and the same cardCount return Evaluations equal by value,
\* whatever calls were made in between.
C15_SameInputsSameEvaluation ==
    \A i, j \in 1..Len(calls) :
        sameInputs(calls[i], calls[j]) => sameEvaluation(calls[i], calls[j])

\* two calls with the same inputs around a call with different hole cards
\* whose best hand is of another category
C15_Witness ==
    /\ Len(calls) = 3
    /\ sameInputs(calls[1], calls[3])
    /\ calls[2].holeCards # calls[1].holeCards
    /\ calls[2].bestHighRank > calls[1].bestHighRank
    /\ sameEvaluation(calls[1], calls[3])

(***************************************************************************)
(* Claims about royal flushes and wheels (specification SpecHand)          *)
(***************************************************************************)
rankSet(hand) == {hand[i].rank : i \in 1..Len(hand)}

\* C16: evaluateHand returns RoyalFlush for every one-suit hand of the ranks
\* A, K, Q, J, 10 and StraightFlush for the one-suit wheel A, 2, 3, 4, 5.
C16_RoyalFlushAndSuitedWheel ==
    pc = "evaluateHand" /\ allSameSuit(hand1) =>
        /\ rankSet(hand1) = {"A", "K", "Q", "J", "10"} => result = RoyalFlush
        /\ rankSet(hand1) = {"A", "2", "3", "4", "5"} => result = StraightFlush

\* the royal flush of spades
C16_Witness ==
    /\ pc = "evaluateHand"
    /\ rankSet(hand1) = {"A", "K", "Q", "J", "10"}
    /\ \A i \in 1..5 : hand1[i].suit = "Spades"
    /\ result = RoyalFlush

(***************************************************************************)
(* SpecCheckStraight: checkStraight on the ranks of one hand               *)
(***************************************************************************)
\* every choice of 5 ranks among the 13, at most 4 of a kind, the ace first;
\* the copies of a rank take the suits in the order of ALL_SUITS
allRankHands ==
    {[i \in 1..5 |-> createCard(ALL_SUITS[copyIndex(t, i)], aceFirstRanks[t[i]])] :
        t \in {u \in [1..5 -> 1..Len(aceFirstRanks)] :
                  /\ \A i \in 1..4 : u[i] <= u[i + 1]
                  /\ \A i \in 1..5 : copyIndex(u, i) <= 4}}

InitCheckStraight ==
    /\ pc = "hand"
    /\ hand1 \in allRankHands
    /\ hand2 = NoHand /\ hand3 = NoHand
    /\ rank = HighCard
    /\ result = NoResult
    /\ noItems /\ noCalls /\ appIdle
    /\ engineIdle

\* const isStraight = checkStraight(ranks), as evaluateHand calls it
CheckStraight ==
    /\ pc = "hand"
    /\ pc' = "checkStraight"
    /\ result' = checkStraight(ranksOf(hand1))
    /\ UNCHANGED <<handVars, appVars, calls, engineVars>>

NextCheckStraight == CheckStraight

SpecCheckStraight == InitCheckStraight /\ [][NextCheckStraight]_vars

\* C17: checkStraight accepts exactly the hands whose five high values are
\* consecutive and the wheel {14, 2, 3, 4, 5}; the ace is low nowhere else
\* (Q-K-A-2-3 and K-A-2-3-4 are no straights) and a hand with a repeated rank
\* is no straight.
C17_StraightTest ==
    pc = "checkStraight" =>
        /\ result <=>
               \/ \E lo \in 2..10 : highValueSet(hand1) = lo..(lo + 4)
               \/ highValueSet(hand1) = {14, 2, 3, 4, 5}
        /\ rankSet(hand1) \in {{"Q", "K", "A", "2", "3"}, {"K", "A", "2", "3", "4"},
                               {"J", "Q", "K", "A", "2"}} => result = FALSE
        /\ Cardinality(rankSet(hand1)) < 5 => result = FALSE

\* K-A-2-3-4 is found to be no straight
C17_Witness ==
    /\ pc = "checkStraight"
    /\ rankSet(hand1) = {"K", "A", "2", "3", "4"}
    /\ result = FALSE

(***************************************************************************)
(* Hand descriptions: getHandDescription                                   *)
(***************************************************************************)
\* the symbols are written by their code points
getSuitSymbol(suit) ==
    CASE suit = "Hearts" -> "U+2665"
      [] suit = "Diamonds" -> "U+2666"
      [] suit = "Clubs" -> "U+2663"
      [] suit = "Spades" -> "U+2660"

getRankDisplay(r) == r

\* bestHand.find((c) => rankToValue(c.rank) === value)
findByValue(bestHand, value) ==
    bestHand[CHOOSE i \in 1..Len(bestHand) :
                 /\ rankToValue(bestHand[i].rank) = value
                 /\ \A j \in 1..(i - 1) : rankToValue(bestHand[j].rank) # value]

\* getHandDescription showing the highest card of a straight, whichever
\* straight it is
getHandDescriptionTopCard(bestHand, r) ==
    CASE r = StraightFlush ->
            <<"Straight Flush-", getRankDisplay(getHighCard(bestHand).rank)>>
      [] r = Straight ->
            <<"Straight-", getRankDisplay(getHighCard(bestHand).rank)>>
      [] OTHER -> <<"other">>

\* the switch of getHandDescription on the evaluation findBestHand returned;
\* the template literal is kept as the sequence of its parts
getHandDescription(bestHand, r) ==
    CASE r = RoyalFlush -> <<"Royal Flush">>
      [] r = StraightFlush ->
            IF bestHand = <<>> THEN Thrown
            ELSE <<"Straight Flush-", getRankDisplay(getStraightHighCard(bestHand).rank)>>
      [] r = FourOfAKind ->
            IF getRepeatedRank(bestHand, 4) = Throws THEN Thrown
            ELSE <<"Four of a Kind-", getRankDisplay(getRepeatedRank(bestHand, 4))>>
      [] r = FullHouse ->
            IF Throws \in {getRepeatedRank(bestHand, 3), getRepeatedRank(bestHand, 2)}
            THEN Thrown
            ELSE <<"Full House-", getRankDisplay(getRepeatedRank(bestHand, 3)), "/",
                   getRankDisplay(getRepeatedRank(bestHand, 2))>>
      [] r = Flush ->
            IF bestHand = <<>> THEN Thrown
            ELSE <<"Flush-", getRankDisplay(getHighCard(bestHand).rank),
                   getSuitSymbol(getHighCard(bestHand).suit)>>
      [] r = Straight ->
            IF bestHand = <<>> THEN Thrown
            ELSE <<"Straight-", getRankDisplay(getStraightHighCard(bestHand).rank)>>
      [] r = ThreeOfAKind ->
            LET tripRank == getRepeatedRank(bestHand, 3)
                kickers == SortDesc(otherValues(bestHand, {tripRank}))
            IN IF tripRank = Throws \/ kickers = <<>> THEN Thrown
               ELSE <<"Three of a Kind-", getRankDisplay(tripRank), "/",
                      getRankDisplay(findByValue(bestHand, kickers[1]).rank)>>
      [] r = TwoPair ->
            LET pairs == getTwoPairRanks(bestHand)
                others == otherValues(bestHand, {pairs.high, pairs.low})
            IN IF others = <<>> THEN Thrown
               ELSE <<"Two Pair-", getRankDisplay(pairs.high), "/",
                      getRankDisplay(pairs.low), "-",
                      getRankDisplay(findByValue(bestHand, MathMax(others)).rank)>>
      [] r = OnePair ->
            IF getRepeatedRank(bestHand, 2) = Throws THEN Thrown
            ELSE <<"Pair-", getRankDisplay(getRepeatedRank(bestHand, 2))>>
      [] r = HighCard ->
            IF bestHand = <<>> THEN Thrown
            ELSE <<"High Card-", getRankDisplay(getHighCard(bestHand).rank)>>

(***************************************************************************)
(* SpecDescribe: getHandDescription on a player's hand and a board         *)
(***************************************************************************)
\* the cards are those of the first DescribeRanks ranks, the ace first, in two
\* suits; a player holds 2 of them and the board shows 3 others
DescribeRanks == 6

describeDeck == deckOf(SubSeq(ALL_SUITS, 1, 2), SubSeq(aceFirstRanks, 1, DescribeRanks))

InitDescribe ==
    /\ pc = "findBestHand"
    /\ \E H \in positions(describeDeck, 2) :
          /\ holeCards = pick(describeDeck, H)
          /\ \E C \in {S \in positions(describeDeck, 3) : S \cap H = {}} :
                 communityCards = pick(describeDeck, C)
    /\ cardCount \in {2, 4, 5}
    /\ allCombinations = <<>>
    /\ idx = 0
    /\ bestHighRank = HighCard
    /\ bestHighHand = <<>>
    /\ bestLowHand = Null
    /\ hand1 = NoHand /\ hand2 = NoHand /\ hand3 = NoHand
    /\ rank = HighCard
    /\ result = NoResult
    /\ noItems /\ noCalls /\ appIdle

\* findBestHand has returned its evaluation: the switch and the return of
\* getHandDescription
GetHandDescription ==
    /\ pc = "fold"
    /\ idx = Len(allCombinations)
    /\ pc' = "getHandDescription"
    /\ result' = getHandDescription(bestHighHand, bestHighRank)
    /\ UNCHANGED <<handVars, appVars, calls, engineVars>>

NextDescribe == Enumerate \/ FoldStep \/ GetHandDescription

SpecDescribe == InitDescribe /\ [][NextDescribe]_vars

\* the rank a straight is named by: 5 for the wheel, else its highest rank
straightHighRank(hand) ==
    IF rankSet(hand) = {"A", "2", "3", "4", "5"} THEN "5"
    ELSE CHOOSE r \in rankSet(hand) :
             \A q \in rankSet(hand) : rankToValue(q) <= rankToValue(r)

\* C18: when the best high hand is a Straight or a StraightFlush,
\* getHandDescription shows the straight's high rank, and for the wheel
\* A-2-3-4-5 it shows "5" ("Straight-5", "Straight Flush-5"), never "A".
C18_StraightDescription ==
    pc = "getHandDescription" /\ bestHighRank \in {Straight, StraightFlush} =>
        /\ result = <<IF bestHighRank = Straight THEN "Straight-" ELSE "Straight Flush-",
                      straightHighRank(bestHighHand)>>
        /\ rankSet(bestHighHand) = {"A", "2", "3", "4", "5"} =>
               result[2] = "5" /\ result[2] # "A"

\* a wheel in two suits described as Straight-5
C18_Witness ==
    /\ pc = "getHandDescription"
    /\ bestHighRank = Straight
    /\ rankSet(bestHighHand) = {"A", "2", "3", "4", "5"}
    /\ result = <<"Straight-", "5">>

(***************************************************************************)
(* SpecPairs: compareHighHands on two hands with repeated ranks            *)
(***************************************************************************)
\* the hands hold the first ComparePairRanks ranks of K, A, 2, 3, ...
ComparePairRanks == 6

\* every choice of 5 of the ranks, at most 4 of a kind; the copies of a rank
\* take the suits in the order of ALL_SUITS or in the reverse order
repeatedRankHands(ranks) ==
    LET tuples == {t \in [1..5 -> 1..Len(ranks)] :
                      /\ \A i \in 1..4 : t[i] <= t[i + 1]
                      /\ \A i \in 1..5 : copyIndex(t, i) <= 4}
    IN {[i \in 1..5 |-> createCard(ALL_SUITS[copyIndex(t, i)], ranks[t[i]])] :
            t \in tuples}
       \cup
       {[i \in 1..5 |-> createCard(ALL_SUITS[5 - copyIndex(t, i)], ranks[t[i]])] :
            t \in tuples}

repeatedRankCategories == {FourOfAKind, FullHouse, ThreeOfAKind, TwoPair, OnePair}

comparePairPool ==
    [r \in repeatedRankCategories |->
        {h \in repeatedRankHands(SubSeq(kingFirstRanks, 1, ComparePairRanks)) :
            evaluateHand(h) = r}]

InitPairs ==
    /\ pc = "hand"
    /\ rank \in repeatedRankCategories
    /\ hand1 \in comparePairPool[rank]
    /\ hand2 \in comparePairPool[rank]
    /\ hand3 = NoHand
    /\ result = NoResult
    /\ noItems /\ noCalls /\ appIdle
    /\ engineIdle

NextPairs == CompareHighHands

SpecPairs == InitPairs /\ [][NextPairs]_vars

\* the number of cards of the hand that have the high value v
copies(hand, v) == Cardinality({i \in 1..Len(hand) : rankToValue(hand[i].rank) = v})

\* the values of a set, from the highest to the lowest
descending(S) ==
    CHOOSE seq \in [1..Cardinality(S) -> S] :
        \A i \in 1..(Cardinality(S) - 1) : seq[i] > seq[i + 1]

\* -1, 1 or 0 as sequence a is higher, lower or equal to b at the first
\* position where they differ
lexicographic(a, b) ==
    IF a = b THEN 0
    ELSE LET i == CHOOSE n \in 1..Len(a) :
                      a[n] # b[n] /\ \A m \in 1..(n - 1) : a[m] = b[m]
         IN IF a[i] > b[i] THEN 0 - 1 ELSE 1

\* higher pair, lower pair, kicker
twoPairKey(hand) ==
    descending({v \in highValueSet(hand) : copies(hand, v) = 2})
    \o descending({v \in highValueSet(hand) : copies(hand, v) = 1})

\* C19: two TwoPair hands are compared by the higher pair's rank, then the
\* lower pair's rank, then the kicker, stopping at the first difference; the
\* result is 0 only when all three agree.
C19_TwoPairOrder ==
    pc = "compareHighHands" /\ rank = TwoPair
        /\ evaluateHand(hand1) = TwoPair /\ evaluateHand(hand2) = TwoPair =>
        /\ result = lexicographic(twoPairKey(hand1), twoPairKey(hand2))
        /\ result = 0 <=> twoPairKey(hand1) = twoPairKey(hand2)

\* the same two pairs, decided by the kicker
C19_Witness ==
    /\ pc = "compareHighHands" /\ rank = TwoPair
    /\ evaluateHand(hand1) = TwoPair /\ evaluateHand(hand2) = TwoPair
    /\ twoPairKey(hand1)[1] = twoPairKey(hand2)[1]
    /\ twoPairKey(hand1)[2] = twoPairKey(hand2)[2]
    /\ twoPairKey(hand1)[3] < twoPairKey(hand2)[3]
    /\ result = 1

\* the value repeated most often, then the other values from the highest down
repeatedKey(hand) ==
    LET most == CHOOSE v \in highValueSet(hand) :
                    \A w \in highValueSet(hand) : copies(hand, w) <= copies(hand, v)
    IN <<most>> \o descending(highValueSet(hand) \ {most})

\* C20: two hands of the same category among FourOfAKind, FullHouse,
\* ThreeOfAKind and OnePair are compared by the value of the rank repeated
\* most often, then by the remaining ranks sorted descending,
\* lexicographically; the result is 0 only when all agree.
C20_RepeatedRankThenKickers ==
    pc = "compareHighHands"
        /\ rank \in {FourOfAKind, FullHouse, ThreeOfAKind, OnePair}
        /\ evaluateHand(hand1) = rank /\ evaluateHand(hand2) = rank =>
        /\ result = lexicographic(repeatedKey(hand1), repeatedKey(hand2))
        /\ result = 0 <=> repeatedKey(hand1) = repeatedKey(hand2)

\* two hands with the same pair and the same two top kickers, decided by the
\* last kicker
C20_Witness ==
    /\ pc = "compareHighHands" /\ rank = OnePair
    /\ evaluateHand(hand1) = OnePair /\ evaluateHand(hand2) = OnePair
    /\ SubSeq(repeatedKey(hand1), 1, 3) = SubSeq(repeatedKey(hand2), 1, 3)
    /\ repeatedKey(hand1)[4] > repeatedKey(hand2)[4]
    /\ result = 0 - 1

(***************************************************************************)
(* Low-hand descriptions: getLowHandDescription                            *)
(***************************************************************************)
\* String(value) for the low values 1..13
String(value) ==
    CASE value = 1 -> "1" [] value = 2 -> "2" [] value = 3 -> "3"
      [] value = 4 -> "4" [] value = 5 -> "5" [] value = 6 -> "6"
      [] value = 7 -> "7" [] value = 8 -> "8" [] value = 9 -> "9"
      [] value = 10 -> "10" [] value = 11 -> "11" [] value = 12 -> "12"
      [] value = 13 -> "13"

\* getLowHandDescription reading the values in the order of the cards
getLowHandDescriptionUnsorted(bestLow) ==
    IF bestLow = Null THEN <<"No low">>
    ELSE [i \in 1..Len(bestLow) |-> String(lowValues(bestLow)[i])]

\* getLowHandDescription on the evaluation findBestHand returned; the joined
\* string is kept as the sequence of its parts
getLowHandDescription(bestLow) ==
    IF bestLow = Null THEN <<"No low">>
    ELSE LET values == SortDesc(lowValues(bestLow))
         IN [i \in 1..Len(values) |-> String(values[i])]

(***************************************************************************)
(* SpecExamples: findBestHand and getLowHandDescription on two deals, the  *)
(* cards of each given in every order                                      *)
(***************************************************************************)
\* the sequences that hold each element of the set S once
orderings(S) ==
    {seq \in [1..Cardinality(S) -> S] : \A i, j \in 1..Cardinality(S) :
                                            i # j => seq[i] # seq[j]}

acesHole == {createCard("Spades", "A"), createCard("Hearts", "A")}
acesCommunity ==
    {createCard("Diamonds", "A"), createCard("Clubs", "A"), createCard("Spades", "K"),
     createCard("Hearts", "2"), createCard("Diamonds", "3")}

straightHole == {createCard("Clubs", "2"), createCard("Diamonds", "7")}
straightCommunity ==
    {createCard("Spades", "3"), createCard("Spades", "4"), createCard("Spades", "5"),
     createCard("Spades", "6"), createCard("Hearts", "9")}

InitExamples ==
    /\ pc = "findBestHand"
    /\ \/ /\ holeCards \in orderings(acesHole)
          /\ communityCards \in orderings(acesCommunity)
          /\ cardCount \in {4, 5}
       \/ /\ holeCards \in orderings(straightHole)
          /\ communityCards \in orderings(straightCommunity)
          /\ cardCount = 2
    /\ allCombinations = <<>>
    /\ idx = 0
    /\ bestHighRank = HighCard
    /\ bestHighHand = <<>>
    /\ bestLowHand = Null
    /\ hand1 = NoHand /\ hand2 = NoHand /\ hand3 = NoHand
    /\ rank = HighCard
    /\ result = NoResult
    /\ noItems /\ noCalls /\ appIdle

\* findBestHand has returned its evaluation: the rest of getLowHandDescription
GetLowHandDescription ==
    /\ pc = "fold"
    /\ idx = Len(allCombinations)
    /\ pc' = "getLowHandDescription"
    /\ result' = getLowHandDescription(bestLowHand)
    /\ UNCHANGED <<handVars, appVars, calls, engineVars>>

NextExamples == Enumerate \/ FoldStep \/ Return \/ GetLowHandDescription

SpecExamples == InitExamples /\ [][NextExamples]_vars

\* C21: under the fixed two-plus-three rule, hole cards A-spades, A-hearts
\* and community cards A-diamonds, A-clubs, K-spades, 2-hearts, 3-diamonds
\* give bestHighRank = FourOfAKind and a bestHighHand of the four aces and
\* the king.
C21_FourAcesKingKicker ==
    pc = "done" /\ Range(holeCards) = acesHole /\ Range(communityCards) = acesCommunity =>
        /\ bestHighRank = FourOfAKind
        /\ Range(bestHighHand) =
               {createCard(s, "A") : s \in Range(ALL_SUITS)} \cup {createCard("Spades", "K")}
        /\ Len(bestHighHand) = 5

\* the deal of the four aces evaluated with the king dealt last
C21_Witness ==
    /\ pc = "done"
    /\ Range(holeCards) = acesHole /\ Range(communityCards) = acesCommunity
    /\ communityCards[5] = createCard("Spades", "K")
    /\ bestHighRank = FourOfAKind
    /\ createCard("Spades", "K") \in Range(bestHighHand)

isStraightDeal == Range(holeCards) = straightHole /\ Range(communityCards) = straightCommunity

\* both splits are among the candidates the fold has run over
bothSplitsExplored ==
    /\ \E i \in 1..Len(allCombinations) : Len(allCombinations[i][1]) = 1
    /\ \E i \in 1..Len(allCombinations) : Len(allCombinations[i][1]) = 2

\* C22 as stated: under the flexible rule, hole cards 2-clubs, 7-diamonds and
\* community cards 3, 4, 5, 6 of spades and 9-hearts give category Straight,
\* both splits explored, and the straight picked is 2-3-4-5-6.
C22_PicksSixHighStraight ==
    pc = "done" /\ isStraightDeal =>
        /\ bestHighRank = Straight
        /\ bothSplitsExplored
        /\ rankSet(bestHighHand) = {"2", "3", "4", "5", "6"}

\* C22 amended: the category is Straight, both splits are explored, and the
\* straight picked is 3-4-5-6-7, the 7 of diamonds with the four spades: it
\* beats 2-3-4-5-6 on the high card.
C22_PicksSevenHighStraight ==
    pc = "done" /\ isStraightDeal =>
        /\ bestHighRank = Straight
        /\ bothSplitsExplored
        /\ Range(bestHighHand) =
               {createCard("Diamonds", "7"), createCard("Spades", "3"),
                createCard("Spades", "4"), createCard("Spades", "5"),
                createCard("Spades", "6")}
        /\ \E i \in 1..Len(allCombinations) :
               /\ rankSet(candidate(i)) = {"2", "3", "4", "5", "6"}
               /\ compareHighHands(bestHighHand, candidate(i), Straight) = 0 - 1

\* the deal evaluated with the 2 of clubs first, so that 2-3-4-5-6 is met
\* before 3-4-5-6-7
C22_Witness ==
    /\ pc = "done" /\ isStraightDeal
    /\ holeCards[1] = createCard("Clubs", "2")
    /\ bestHighRank = Straight
    /\ rankSet(bestHighHand) = {"3", "4", "5", "6", "7"}

\* C23 as stated: for the same deal under the flexible rule the qualifying
\* low reported is 7,6,5,4,2: getLowHandDescription returns "76542".
C23_LowIs76542 ==
    pc = "getLowHandDescription" /\ isStraightDeal =>
        result = <<"7", "6", "5", "4", "2">>

\* C23 amended: the qualifying low reported is 6,5,4,3,2, the 2 of clubs with
\* the 3, 4, 5, 6 of spades: getLowHandDescription returns "65432".
C23_LowIs65432 ==
    pc = "getLowHandDescription" /\ isStraightDeal =>
        /\ result = <<"6", "5", "4", "3", "2">>
        /\ Range(bestLowHand) =
               {createCard("Clubs", "2"), createCard("Spades", "3"),
                createCard("Spades", "4"), createCard("Spades", "5"),
                createCard("Spades", "6")}

\* the low of the deal described, the best low hand not being held in
\* descending order
C23_Witness ==
    /\ pc = "getLowHandDescription" /\ isStraightDeal
    /\ bestLowHand # Null
    /\ bestLowHand[1] = createCard("Clubs", "2")
    /\ result = <<"6", "5", "4", "3", "2">>

(***************************************************************************)
(* SpecSuits: evaluateHand on hands of five different ranks in one, two    *)
(* and four suits                                                          *)
(***************************************************************************)
\* each suit alone, two suits, and all four suits
allSuitLayouts ==
    {[i \in 1..5 |-> s] : s \in Range(ALL_SUITS)}
    \cup suitLayouts
    \cup {<<"Hearts", "Diamonds", "Clubs", "Spades", "Hearts">>,
          <<"Spades", "Clubs", "Diamonds", "Hearts", "Clubs">>}

InitSuits ==
    /\ pc = "hand"
    /\ \E S \in positions(ALL_RANKS, 5) : \E layout \in allSuitLayouts :
          hand1 = [i \in 1..5 |-> createCard(layout[i], pick(ALL_RANKS, S)[i])]
    /\ hand2 = NoHand /\ hand3 = NoHand
    /\ rank = HighCard
    /\ result = NoResult
    /\ noItems /\ noCalls /\ appIdle
    /\ engineIdle

NextSuits == EvaluateHand

SpecSuits == InitSuits /\ [][NextSuits]_vars

suitSet(hand) == {hand[i].suit : i \in 1..Len(hand)}

\* the five high values are consecutive and are not 10, J, Q, K, A
consecutiveBelowRoyal(hand) == \E lo \in 2..9 : highValueSet(hand) = lo..(lo + 4)

\* C24 as stated: every 5-card hand whose cards have all distinct suits and
\* whose high values are strictly consecutive and not 10, J, Q, K, A is a
\* StraightFlush, never a RoyalFlush or a Flush. No five cards of four suits
\* have pairwise different suits; the statement is taken for the hands that
\* show as many different suits as there are.
C24_DistinctSuitsStraightFlush ==
    pc = "evaluateHand" /\ isFiveCardHand(hand1)
        /\ Cardinality(suitSet(hand1)) = Len(ALL_SUITS)
        /\ consecutiveBelowRoyal(hand1) =>
        result = StraightFlush

\* C24 amended: every 5-card hand whose cards are all of the same suit and
\* whose high values are strictly consecutive and not 10, J, Q, K, A is a
\* StraightFlush, never a RoyalFlush or a Flush.
C24_SameSuitStraightFlush ==
    pc = "evaluateHand" /\ isFiveCardHand(hand1)
        /\ Cardinality(suitSet(hand1)) = 1
        /\ consecutiveBelowRoyal(hand1) =>
        result = StraightFlush /\ result \notin {RoyalFlush, Flush}

\* 9-10-J-Q-K of clubs classified StraightFlush
C24_Witness ==
    /\ pc = "evaluateHand"
    /\ suitSet(hand1) = {"Clubs"}
    /\ rankSet(hand1) = {"9", "10", "J", "Q", "K"}
    /\ result = StraightFlush

(***************************************************************************)
(* Claims about the returned Evaluation (specification Spec)               *)
(***************************************************************************)
inputCards == Range(holeCards) \cup Range(communityCards)

\* C25: when findBestHand evaluates at least one candidate from duplicate-free
\* disjoint hole and community cards, the Evaluation is self-consistent:
\* bestHighHand is 5 distinct cards of the inputs and bestHighRank is
\* evaluateHand(bestHighHand); at every step of the fold the hands given to
\* evaluateHand, compareHighHands and isQualifyingLow are 5 distinct cards.
C25_EvaluationSelfConsistent ==
    /\ pc = "done" /\ allCombinations # <<>> =>
           /\ isFiveCardHand(bestHighHand)
           /\ Range(bestHighHand) \subseteq inputCards
           /\ bestHighRank = evaluateHand(bestHighHand)
    /\ pc = "fold" =>
           /\ \A i \in 1..Len(allCombinations) :
                  isFiveCardHand(candidate(i)) /\ Range(candidate(i)) \subseteq inputCards
           /\ bestHighHand # <<>> =>
                  /\ isFiveCardHand(bestHighHand)
                  /\ bestHighRank = evaluateHand(bestHighHand)
           /\ bestLowHand # Null => isFiveCardHand(bestLowHand)

\* an Evaluation whose best hand came in after the first candidate, with a
\* category above HighCard
C25_Witness ==
    /\ pc = "done"
    /\ Len(allCombinations) >= 2
    /\ bestHighHand # candidate(1)
    /\ bestHighRank > evaluateHand(candidate(1))
    /\ bestHighRank = evaluateHand(bestHighHand)

(***************************************************************************)
(* Round-result storage (lib/storage/roundResults.ts)                      *)
(***************************************************************************)
MAX_RESULTS == 20

\* JSON.stringify of a list of results and JSON.parse of the string
stringify(results) == <<"json", results>>
parse(data) == data[2]

\* loadRoundResults once getItem has answered with data
loadRoundResults(data) == IF data # Null THEN parse(data) ELSE <<>>

\* results.slice(-MAX_RESULTS) keeping the first MAX_RESULTS results instead
trimmedResultsFromFront(results) ==
    SubSeq(results, 1, IF Len(results) > MAX_RESULTS THEN MAX_RESULTS ELSE Len(results))

\* results.slice(-MAX_RESULTS)
trimmedResults(results) ==
    IF Len(results) > MAX_RESULTS
    THEN SubSeq(results, Len(results) - MAX_RESULTS + 1, Len(results))
    ELSE results

\* the saveRoundResult calls that have not finished
inFlight == {c \in 1..Len(savers) : savers[c].pc # "done"}

\* at most MaxSaves results are saved on top of those stored at the start
MaxSaves == 3

\* the storage holds the results of earlier sessions, 0 to MAX_RESULTS of them
InitStorage ==
    /\ pc = "screen"
    /\ \E n \in 0..MAX_RESULTS :
          /\ saved = [i \in 1..n |-> [isCorrect |-> TRUE, round |-> i]]
          /\ storage = IF n = 0 THEN Null ELSE stringify(saved)
    /\ savers = <<>>
    /\ screenIdle
    /\ hand1 = NoHand /\ hand2 = NoHand /\ hand3 = NoHand
    /\ rank = HighCard
    /\ result = NoResult
    /\ noItems /\ noCalls
    /\ engineIdle

\* saveRoundResult(result) is entered: it runs up to its first await, the
\* getItem of loadRoundResults
saveRoundResult(roundResult) ==
    /\ savers' = Append(savers, [result |-> roundResult, pc |-> "getItem",
                                 results |-> <<>>])
    /\ saved' = Append(saved, roundResult)

\* a caller saves the result of one more round while fewer than limit calls
\* are in flight
SaveRoundResult(limit) ==
    /\ Cardinality(inFlight) < limit
    /\ Len(savers) < MaxSaves
    /\ \E isCorrect \in BOOLEAN :
          saveRoundResult([isCorrect |-> isCorrect, round |-> Len(saved) + 1])
    /\ UNCHANGED <<pc, handVars, calls, result, engineVars, screenVars, storage>>

\* getItem answers call c: results = await loadRoundResults();
\* results.push(result); the call goes on to setItem and awaits it
GetItem(c) ==
    /\ c \in 1..Len(savers)
    /\ savers[c].pc = "getItem"
    /\ savers' = [savers EXCEPT ![c].pc = "setItem",
                                ![c].results = Append(loadRoundResults(storage),
                                                      savers[c].result)]
    /\ UNCHANGED <<pc, handVars, calls, result, engineVars, screenVars, storage, saved>>

\* the setItem of call c takes effect and the call returns
SetItem(c) ==
    /\ c \in 1..Len(savers)
    /\ savers[c].pc = "setItem"
    /\ storage' = stringify(trimmedResults(savers[c].results))
    /\ savers' = [savers EXCEPT ![c].pc = "done"]
    /\ UNCHANGED <<pc, handVars, calls, result, engineVars, screenVars, saved>>

\* resetStats, called while no save is in flight: removeItem
ResetStats ==
    /\ inFlight = {}
    /\ savers # <<>>
    /\ storage' = Null
    /\ savers' = <<>>
    /\ saved' = <<>>
    /\ UNCHANGED <<pc, handVars, calls, result, engineVars, screenVars>>

\* SpecStorage: the calls of saveRoundResult do not overlap
NextStorage ==
    \/ SaveRoundResult(1)
    \/ \E c \in 1..MaxSaves : GetItem(c)
    \/ \E c \in 1..MaxSaves : SetItem(c)
    \/ ResetStats

SpecStorage == InitStorage /\ [][NextStorage]_vars

\* the list a reader of the storage gets
storedResults == loadRoundResults(storage)

\* the last n elements of a sequence, all of them if it has fewer
lastOf(seq, n) == IF Len(seq) > n THEN SubSeq(seq, Len(seq) - n + 1, Len(seq)) ELSE seq

MaxOverlap == 2

NextOverlap ==
    \/ SaveRoundResult(MaxOverlap)
    \/ \E c \in 1..MaxSaves : GetItem(c)
    \/ \E c \in 1..MaxSaves : SetItem(c)
    \/ ResetStats

SpecOverlap == InitStorage /\ [][NextOverlap]_vars

\* result r is in the stored list
isStored(r) == \E i \in 1..Len(storedResults) : storedResults[i] = r

\* C27: when two saveRoundResult calls are in flight at the same time, after
\* both complete the stored list contains both results (subject only to the
\* cap of 20), whatever the interleaving of their load and store steps.
C27_OverlapLosesNoResult ==
    inFlight = {} =>
        \A c \in 1..Len(savers) :
            (\E i \in 1..Len(saved) : saved[i] = savers[c].result /\ i > Len(saved) - MAX_RESULTS)
                => isStored(savers[c].result)


(***************************************************************************)
(* Deck (lib/models/Deck.ts)                                               *)
(***************************************************************************)
\* Deck.reset before the shuffle: the 52 cards, suit by suit
freshDeck == deckOf(ALL_SUITS, ALL_RANKS)

\* the deck with its first n cards moved to the bottom
cut(deck, n) == SubSeq(deck, n + 1, Len(deck)) \o SubSeq(deck, 1, n)

\* the deck with the cards of front on top, the other cards below in their
\* order
stacked(deck, front) == front \o SelectSeq(deck, LAMBDA c : c \notin Range(front))

\* dealCards(count): <<the cards dealt, the cards left in the deck>>
dealCards(cards, count) ==
    IF Len(cards) < count THEN <<<<>>, cards>>
    ELSE <<SubSeq(cards, 1, count), SubSeq(cards, count + 1, Len(cards))>>

\* removeCard leaving the deck as it is
removeCardKeepsAll(cards, card) == cards

\* removeCard(card): the cards left in the deck
removeCard(cards, card) ==
    SelectSeq(cards, LAMBDA c : ~(c.rank = card.rank /\ c.suit = card.suit))

(***************************************************************************)
(* Hand-reading screen (HandReadingScreen): settings and dealing           *)
(***************************************************************************)
CARD_COUNT_OPTIONS == <<2, 4, 5>>
PLAYER_COUNT_OPTIONS == <<2, 3, 4, 5, 6, 7, 8>>

createPlayerHand(cards) == [cards |-> cards]

\* new Date()
NewDate == <<"Date">>

\* new Map(), map.has(key), map.set(key, value): a Map is the function from
\* its keys to their values
newMap == <<>>
has(map, key) == key \in DOMAIN map
set(map, key, value) ==
    [x \in (DOMAIN map) \cup {key} |-> IF x = key THEN value ELSE map[x]]

\* the state of the component when it is mounted (the useState defaults); dealt
\* counts the rounds dealt so far and so names the round on the table, events
\* the selection events made so far
mounted ==
    [selectedCardCount |-> 5, selectedPlayerCount |-> 5,
     gameStarted |-> FALSE, revealStage |-> "ready",
     hands |-> <<>>, communityCards |-> <<>>,
     selectedAnswers |-> newMap, elevatedCards |-> {},
     selectedCommunityCards |-> {}, elevatedCommunityCards |-> {},
     selectedHoleCards |-> newMap, elevatedHoleCards |-> newMap,
     noLowSelected |-> FALSE, showingResults |-> FALSE,
     timerStartTime |-> Null, timerActive |-> FALSE,
     roundStatus |-> "incomplete", hadFailureThisRound |-> FALSE,
     roundResults |-> <<>>, dealt |-> 0, events |-> 0]

\* at most MaxDeals rounds are dealt
MaxDeals == 2

\* for (const card of communityCards) deck.removeCard(card)
RECURSIVE removeCards(_, _)
removeCards(cards, toRemove) ==
    IF toRemove = <<>> THEN cards
    ELSE removeCards(removeCard(cards, Head(toRemove)), Tail(toRemove))

\* for (let i = 0; i < numberOfHands; i++)
\*     newHands.push(createPlayerHand(deck.dealCards(selectedCardCount)))
RECURSIVE dealHands(_, _, _)
dealHands(cards, numberOfHands, count) ==
    IF numberOfHands = 0 THEN <<>>
    ELSE LET dealt == dealCards(cards, count)
         IN <<createPlayerHand(dealt[1])>> \o dealHands(dealt[2], numberOfHands - 1, count)

\* the values of numberOfHands: 2 for two players, otherwise
\* Math.floor(Math.random() * (selectedPlayerCount - 1)) + 2
numbersOfHands(selectedPlayerCount) ==
    IF selectedPlayerCount = 2 THEN {2} ELSE 2..selectedPlayerCount

\* setRoundResults((prev) => [...prev.slice(-19), result])
pushRoundResult(prev, roundResult) == Append(lastOf(prev, MAX_RESULTS - 1), roundResult)

\* the state setters that startGame and redealHands share: the selection
\* state is reset
resetSelection(state) ==
    [state EXCEPT !.selectedAnswers = newMap, !.elevatedCards = {},
                  !.selectedCommunityCards = {}, !.elevatedCommunityCards = {},
                  !.selectedHoleCards = newMap, !.elevatedHoleCards = newMap,
                  !.noLowSelected = FALSE, !.showingResults = FALSE,
                  !.roundStatus = "incomplete", !.hadFailureThisRound = FALSE]

\* the Set objects that a pending callback can still read: all of them while
\* a checkRoundCompleteness call is pending, none otherwise
reachableObjects == IF \E i \in 1..Len(timers) : timers[i].callback = "checkRoundCompleteness"
                    THEN heap ELSE <<>>

\* setSelectedCardCount(option), in the settings view
SetSelectedCardCount(options) ==
    /\ ~screen.gameStarted
    /\ \E option \in options :
          /\ option # screen.selectedCardCount
          /\ screen' = [screen EXCEPT !.selectedCardCount = option]
    /\ UNCHANGED <<pc, handVars, calls, result, engineVars, storageVars, heap, timers>>

\* setSelectedPlayerCount(option), in the settings view
SetSelectedPlayerCount(options) ==
    /\ ~screen.gameStarted
    /\ \E option \in options :
          /\ option # screen.selectedPlayerCount
          /\ screen' = [screen EXCEPT !.selectedPlayerCount = option]
    /\ UNCHANGED <<pc, handVars, calls, result, engineVars, storageVars, heap, timers>>

\* startGame ("Start", "New Flop", "New Deal"); new Deck() is one of shuffles
StartGame(shuffles) ==
    /\ screen.gameStarted => screen.revealStage \in {"river", "fullGame"}
    /\ screen.dealt < MaxDeals
    /\ LET roundResult == [isCorrect |-> FALSE, round |-> screen.dealt]
           saving == screen.timerActive /\ screen.timerStartTime # Null
       IN /\ IF saving
             THEN Len(savers) < MaxSaves /\ saveRoundResult(roundResult)
             ELSE UNCHANGED <<savers, saved>>
          /\ \E deck \in shuffles :
             \E numberOfHands \in numbersOfHands(screen.selectedPlayerCount) :
                LET newCommunityCards == dealCards(deck, MaxCommunity)
                    newHands == dealHands(newCommunityCards[2], numberOfHands,
                                          screen.selectedCardCount)
                IN screen' = [resetSelection(screen) EXCEPT
                                 !.roundResults = IF saving
                                                  THEN pushRoundResult(@, roundResult)
                                                  ELSE @,
                                 !.communityCards = newCommunityCards[1],
                                 !.hands = newHands,
                                 !.revealStage = "ready",
                                 !.timerActive = FALSE,
                                 !.gameStarted = TRUE,
                                 !.dealt = @ + 1]
    /\ heap' = reachableObjects
    /\ UNCHANGED <<pc, handVars, calls, result, engineVars, storage, timers>>

\* redealHands ("Redeal Player Cards", in the full game view)
RedealHands(shuffles) ==
    /\ screen.gameStarted /\ screen.revealStage = "fullGame"
    /\ screen.dealt < MaxDeals
    /\ \E shuffled \in shuffles :
       \E numberOfHands \in numbersOfHands(screen.selectedPlayerCount) :
          LET deck == removeCards(shuffled, screen.communityCards)
              newHands == dealHands(deck, numberOfHands, screen.selectedCardCount)
          IN screen' = [resetSelection(screen) EXCEPT
                           !.hands = newHands,
                           !.timerStartTime = NewDate,
                           !.timerActive = TRUE,
                           !.dealt = @ + 1]
    /\ heap' = reachableObjects
    /\ UNCHANGED <<pc, handVars, calls, result, engineVars, storageVars, timers>>

\* advanceRevealStage (a press on the stage view, "Showdown")
AdvanceRevealStage ==
    /\ screen.gameStarted
    /\ screen.revealStage # "fullGame"
    /\ screen' = CASE screen.revealStage = "ready" -> [screen EXCEPT !.revealStage = "flop"]
                   [] screen.revealStage = "flop" -> [screen EXCEPT !.revealStage = "turn"]
                   [] screen.revealStage = "turn" -> [screen EXCEPT !.revealStage = "river"]
                   [] screen.revealStage = "river" ->
                        [screen EXCEPT !.revealStage = "fullGame",
                                       !.timerStartTime = NewDate,
                                       !.timerActive = TRUE]
    /\ UNCHANGED <<pc, handVars, calls, result, engineVars, storageVars, heap, timers>>

(***************************************************************************)
(* SpecDeal: the settings view and the dealing of rounds                   *)
(***************************************************************************)
\* new Deck() is the fresh deck cut at one of Cuts places, 11 cards apart
Cuts == 3
dealShuffles == {cut(freshDeck, 11 * n) : n \in 0..(Cuts - 1)}

InitDeal ==
    /\ pc = "screen"
    /\ screen = mounted /\ heap = <<>> /\ timers = <<>>
    /\ storage = Null /\ savers = <<>> /\ saved = <<>>
    /\ hand1 = NoHand /\ hand2 = NoHand /\ hand3 = NoHand
    /\ rank = HighCard
    /\ result = NoResult
    /\ noItems /\ noCalls
    /\ engineIdle

NextDeal ==
    \/ SetSelectedCardCount(Range(CARD_COUNT_OPTIONS))
    \/ SetSelectedPlayerCount(Range(PLAYER_COUNT_OPTIONS))
    \/ StartGame(dealShuffles)
    \/ AdvanceRevealStage
    \/ RedealHands(dealShuffles)
    \/ \E c \in 1..MaxSaves : GetItem(c)
    \/ \E c \in 1..MaxSaves : SetItem(c)

SpecDeal == InitDeal /\ [][NextDeal]_vars

\* the hole cards and the community cards on the table, one after another
cardsOnTable ==
    LET RECURSIVE holeFrom(_)
        holeFrom(i) == IF i > Len(screen.hands) THEN <<>>
                       ELSE screen.hands[i].cards \o holeFrom(i + 1)
    IN holeFrom(1) \o screen.communityCards

\* C30: after startGame or redealHands with any allowed settings the deal is
\* well formed: between 2 and the selected player count hands, every hand of
\* exactly the selected number of cards (dealCards never returns its empty
\* list), 5 community cards, and no (suit, rank) pair twice among them all.
C30_DealIsWellFormed ==
    (screen.dealt > 0) =>
        /\ Len(screen.hands) \in 2..screen.selectedPlayerCount
        /\ \A i \in 1..Len(screen.hands) :
              Len(screen.hands[i].cards) = screen.selectedCardCount
        /\ Len(screen.communityCards) = 5
        /\ \A i, j \in 1..Len(cardsOnTable) :
              (cardsOnTable[i].suit = cardsOnTable[j].suit
               /\ cardsOnTable[i].rank = cardsOnTable[j].rank) => i = j

\* 8 hands of 5 cards dealt by redealHands around the community cards kept
C30_Witness ==
    /\ screen.dealt = 2
    /\ screen.revealStage = "fullGame"
    /\ Len(screen.hands) = 8
    /\ Len(screen.hands[8].cards) = 5
    /\ Len(screen.communityCards) = 5

(***************************************************************************)
(* Hand-reading screen: the answer checks                                  *)
(***************************************************************************)
\* the fold of findBestHand run from combination i to the last one
RECURSIVE foldFrom(_, _, _, _, _)
foldFrom(all, i, bestRank, bestHand, bestLow) ==
    IF i > Len(all)
    THEN [bestHighHand |-> bestHand, bestHighRank |-> bestRank, bestLowHand |-> bestLow]
    ELSE foldFrom(all, i + 1,
                  foldHigh(bestRank, bestHand, all[i][1] \o all[i][2])[1],
                  foldHigh(bestRank, bestHand, all[i][1] \o all[i][2])[2],
                  foldLow(bestLow, all[i][1] \o all[i][2]))

\* findBestHand as the screen calls it: the whole call, arguments to result
findBestHand(hole, community, count) ==
    foldFrom(buildAllCombinations(hole, community, count), 1, HighCard, <<>>, Null)

\* the screen of SpecScreen is set to 2 or 4 hole cards and 2 players, and
\* new Deck() has these cards on top: the community cards A 2 3 K K, then
\* the hole cards
screenCardCounts == {2, 4}
screenPlayerCounts == {2}
screenFront ==
    <<createCard("Hearts", "A"), createCard("Diamonds", "2"), createCard("Clubs", "3"),
      createCard("Spades", "K"), createCard("Diamonds", "K"),
      createCard("Spades", "4"), createCard("Spades", "5"),
      createCard("Clubs", "9"), createCard("Diamonds", "9"),
      createCard("Clubs", "J"), createCard("Hearts", "10"),
      createCard("Clubs", "Q"), createCard("Hearts", "8")>>
screenShuffles == {stacked(freshDeck, screenFront)}

\* the hands of the deal as calls of findBestHand: <<cards, community, count>>
callsOf(hands, community, count) ==
    {<<hands[i].cards, community, count>> : i \in 1..Len(hands)}

\* the calls findBestHand(hand.cards, communityCards, selectedCardCount) that
\* the screen of SpecScreen can make: after startGame dealt from deck, and
\* after redealHands dealt from the deck again around the same community cards
shownHands ==
    UNION {callsOf(dealHands(dealCards(deck, MaxCommunity)[2], n, count),
                   dealCards(deck, MaxCommunity)[1], count)
           \cup callsOf(dealHands(removeCards(again, dealCards(deck, MaxCommunity)[1]),
                                  n, count),
                        dealCards(deck, MaxCommunity)[1], count)
           : deck \in screenShuffles, again \in screenShuffles,
             count \in screenCardCounts,
             n \in UNION {numbersOfHands(p) : p \in screenPlayerCounts}}

\* findBestHand is a function of its arguments: its results, computed once
bestHands == [call \in shownHands |-> findBestHand(call[1], call[2], call[3])]

\* findBestHand(hand.cards, communityCards, selectedCardCount)
bestHandOf(state, hand) ==
    bestHands[<<hand.cards, state.communityCards, state.selectedCardCount>>]

\* hands.map((hand) => findBestHand(hand.cards, communityCards, selectedCardCount))
allEvaluations(state) ==
    [i \in 1..Len(state.hands) |-> bestHandOf(state, state.hands[i])]

\* cards.some((c) => c.rank === card.rank && c.suit === card.suit)
someSameCard(cards, card) ==
    \E i \in 1..Len(cards) : cards[i].rank = card.rank /\ cards[i].suit = card.suit

\* cards.some((c) => c.rank === card.rank)
someSameRank(cards, card) == \E i \in 1..Len(cards) : cards[i].rank = card.rank

\* checkAnswer, "Find actual winner": the loop from challenger i on
RECURSIVE bestHandIndexFrom(_, _, _, _, _)
bestHandIndexFrom(evals, handsWithBestRank, i, bestHandIndex, bestRank) ==
    IF i > Len(handsWithBestRank) THEN bestHandIndex
    ELSE bestHandIndexFrom(evals, handsWithBestRank, i + 1,
            IF compareHighHands(evals[handsWithBestRank[i]].bestHighHand,
                                evals[bestHandIndex].bestHighHand, bestRank) < 0
            THEN handsWithBestRank[i] ELSE bestHandIndex,
            bestRank)

\* checkAnswer, "Find best low": the loop from low i on
RECURSIVE bestLowFrom(_, _, _)
bestLowFrom(lows, i, bestLow) ==
    IF i > Len(lows) THEN bestLow
    ELSE bestLowFrom(lows, i + 1,
                     IF compareLowHands(lows[i], bestLow) < 0 THEN lows[i] ELSE bestLow)

\* checkAnswer for 'hi', given the best rank and the hands that have it
checkHigh(evals, handIndex, bestRank, handsWithBestRank) ==
    IF evals[handIndex].bestHighRank # bestRank THEN FALSE
    ELSE IF Len(handsWithBestRank) = 1 THEN TRUE
    ELSE compareHighHands(
             evals[handIndex].bestHighHand,
             evals[bestHandIndexFrom(evals, handsWithBestRank, 2,
                                     handsWithBestRank[1], bestRank)].bestHighHand,
             bestRank) = 0

\* checkAnswer for 'low', given the best lows of the hands that have one
checkLow(evals, handIndex, lows) ==
    IF Len(lows) = 0 THEN FALSE
    ELSE IF evals[handIndex].bestLowHand = Null THEN FALSE
    ELSE compareLowHands(evals[handIndex].bestLowHand, bestLowFrom(lows, 1, lows[1])) = 0

\* Math.max(...allEvaluations.map((e) => e.bestHighRank))
bestRankOf(evals) == MathMax([i \in 1..Len(evals) |-> evals[i].bestHighRank])

\* checkAnswer on the evaluations of the hands
checkAnswerOn(evals, handIndex, answer) ==
    IF answer = "hi"
    THEN checkHigh(evals, handIndex, bestRankOf(evals),
                   SelectSeq([i \in 1..Len(evals) |-> i],
                             LAMBDA i : evals[i].bestHighRank = bestRankOf(evals)))
    ELSE checkLow(evals, handIndex,
                  SelectSeq([i \in 1..Len(evals) |-> evals[i].bestLowHand],
                            LAMBDA low : low # Null))

\* checkAnswer(handIndex, answer); hands and cards are counted from 1
checkAnswer(state, handIndex, answer) ==
    checkAnswerOn(allEvaluations(state), handIndex, answer)

\* !allEvaluations.some((e) => e.bestLowHand !== null)
noneHasLow(evals) == \A i \in 1..Len(evals) : evals[i].bestLowHand = Null

\* checkNoLowAnswer()
checkNoLowAnswer(state) == noneHasLow(allEvaluations(state))

\* getWinningCommunityCards, "Find best high hand": the loop from evaluation i on
RECURSIVE bestEvalFrom(_, _, _)
bestEvalFrom(evals, i, bestEval) ==
    IF i > Len(evals) THEN bestEval
    ELSE bestEvalFrom(evals, i + 1,
            IF evals[i].bestHighRank > bestEval.bestHighRank THEN evals[i]
            ELSE IF /\ evals[i].bestHighRank = bestEval.bestHighRank
                    /\ compareHighHands(evals[i].bestHighHand, bestEval.bestHighHand,
                                        evals[i].bestHighRank) < 0
                 THEN evals[i]
            ELSE bestEval)

\* getWinningCommunityCards: the community cards of the best hand, if they
\* are as many as the card count asks for
winningOrNull(communityCardsInWinning, count) ==
    IF count = 2
    THEN IF Len(communityCardsInWinning) \in {3, 4} THEN communityCardsInWinning ELSE Null
    ELSE IF Len(communityCardsInWinning) = 3 THEN communityCardsInWinning ELSE Null

\* getWinningCommunityCards on the evaluations of the hands
winningCommunityCards(evals, state) ==
    winningOrNull(SelectSeq(bestEvalFrom(evals, 1, evals[1]).bestHighHand,
                            LAMBDA card : someSameCard(state.communityCards, card)),
                  state.selectedCardCount)

\* getWinningCommunityCards()
getWinningCommunityCards(state) == winningCommunityCards(allEvaluations(state), state)

\* winningCards.some((card) => card.rank === selectedCard.rank), false
\* without winning cards
inWinningCards(winningCards, selectedCard) ==
    IF winningCards = Null THEN FALSE ELSE someSameRank(winningCards, selectedCard)

\* isCorrectCommunityCard(index)
isCorrectCommunityCard(state, index) ==
    inWinningCards(getWinningCommunityCards(state), state.communityCards[index])

\* the hole cards of the hand that are in its best high hand
holeCardsInBest(state, handIndex) ==
    SelectSeq(bestHandOf(state, state.hands[handIndex]).bestHighHand,
              LAMBDA card : someSameCard(state.hands[handIndex].cards, card))

\* isCorrectHoleCard(handIndex, cardIndex)
isCorrectHoleCard(state, handIndex, cardIndex) ==
    someSameRank(holeCardsInBest(state, handIndex),
                 state.hands[handIndex].cards[cardIndex])

\* JSON.stringify of the rank counts of cards: the keys in their order, each
\* with its count
stringifyRankCounts(cards) ==
    [i \in 1..Len(rankCountKeys(cards)) |->
        <<rankCountKeys(cards)[i], rankCount(cards, rankCountKeys(cards)[i])>>]

\* map.get(key) ?? empty
getOr(map, key, empty) == IF has(map, key) THEN map[key] ELSE empty

\* selectedAnswers.get(i), read through the Set object it refers to
answersOf(state, objects, i) ==
    IF has(state.selectedAnswers, i) THEN objects[state.selectedAnswers[i]] ELSE {}

\* the cards of the hand at the indices of elevatedHoleCards.get(i), in the
\* order of the Set
elevatedHole(state, i) ==
    [n \in 1..Len(getOr(state.elevatedHoleCards, i, <<>>)) |->
        state.hands[i].cards[getOr(state.elevatedHoleCards, i, <<>>)[n]]]

\* checkRoundCompleteness, "Check community cards": the elevated community
\* cards are the winning cards, rank for rank
communityChecked(winningCards, state) ==
    /\ winningCards # Null
    /\ Cardinality(state.elevatedCommunityCards) = Len(winningCards)
    /\ \A r \in Range(ranksOf(winningCards)) :
          Cardinality({index \in state.elevatedCommunityCards :
                          state.communityCards[index].rank = r})
             = rankCount(winningCards, r)

\* checkRoundCompleteness, the body of the loop over the hands for hand i
handChecked(state, objects, i, winsHi, hasLow, winsLowAnswer, neededCards) ==
    IF state.selectedCardCount = 2
    THEN winsHi => "hi" \in answersOf(state, objects, i)
    ELSE /\ winsHi => "hi" \in answersOf(state, objects, i)
         /\ (hasLow /\ winsLowAnswer) => "low" \in answersOf(state, objects, i)
         /\ winsHi => stringifyRankCounts(neededCards)
                         = stringifyRankCounts(elevatedHole(state, i))

\* the deal a state shows: what checkAnswer, checkNoLowAnswer,
\* getWinningCommunityCards, isCorrectCommunityCard and isCorrectHoleCard read
dealOf(state) ==
    [hands |-> state.hands, communityCards |-> state.communityCards,
     selectedCardCount |-> state.selectedCardCount]

\* the deals that the screen of SpecScreen can show: after startGame dealt
\* from deck, and after redealHands dealt from the deck again around the same
\* community cards
shownDeals ==
    UNION {{[hands |-> dealHands(dealCards(deck, MaxCommunity)[2], n, count),
             communityCards |-> dealCards(deck, MaxCommunity)[1],
             selectedCardCount |-> count],
            [hands |-> dealHands(removeCards(again, dealCards(deck, MaxCommunity)[1]),
                                 n, count),
             communityCards |-> dealCards(deck, MaxCommunity)[1],
             selectedCardCount |-> count]}
           : deck \in screenShuffles, again \in screenShuffles,
             count \in screenCardCounts,
             n \in UNION {numbersOfHands(p) : p \in screenPlayerCounts}}

\* the answers of the screen's checks on a deal
checksOf(deal) ==
    [checkAnswer |->
         [i \in 1..Len(deal.hands) |->
             [answer \in {"hi", "low"} |-> checkAnswer(deal, i, answer)]],
     checkNoLowAnswer |-> checkNoLowAnswer(deal),
     getWinningCommunityCards |-> getWinningCommunityCards(deal),
     isCorrectCommunityCard |->
         [index \in 1..Len(deal.communityCards) |-> isCorrectCommunityCard(deal, index)],
     isCorrectHoleCard |->
         [i \in 1..Len(deal.hands) |->
             [cardIndex \in 1..Len(deal.hands[i].cards) |->
                 isCorrectHoleCard(deal, i, cardIndex)]],
     hasLow |->
         [i \in 1..Len(deal.hands) |->
             bestHandOf(deal, deal.hands[i]).bestLowHand # Null],
     holeCardsInBest |->
         [i \in 1..Len(deal.hands) |-> holeCardsInBest(deal, i)]]

\* the checks are functions of the deal: their answers, computed once
checks == [deal \in shownDeals |-> checksOf(deal)]

\* checkRoundCompleteness reaches "All checks passed!" on the state it sees,
\* checked being the answers of the checks on the deal of that state
allChecksPassed(checked, state, objects) ==
    /\ communityChecked(checked.getWinningCommunityCards, state)
    /\ \A i \in 1..Len(state.hands) :
          handChecked(state, objects, i,
                      checked.checkAnswer[i]["hi"],
                      checked.hasLow[i],
                      checked.checkAnswer[i]["low"],
                      checked.holeCardsInBest[i])
    /\ state.selectedCardCount # 2 =>
          (checked.checkNoLowAnswer => state.noLowSelected)


(***************************************************************************)
(* SpecScreen: the selection events of the full game view                  *)
(***************************************************************************)
\* a user event is taken while fewer than MaxTimers callbacks are pending, and
\* at most MaxEvents selection events are made
MaxTimers == 2
MaxEvents == 5
\* the user presses the first CommunityPresses community cards and the first
\* HolePresses hole cards of the hand HolePressHand
CommunityPresses == 4
HolePresses == 3
HolePressHand == 1

\* the full game view is shown and takes one more selection event
canSelect ==
    /\ screen.gameStarted /\ screen.revealStage = "fullGame"
    /\ screen.events < MaxEvents
    /\ Len(timers) < MaxTimers

\* setTimeout(() => checkRoundCompleteness(), 100) in a handler of the render
\* that showed state: the callback keeps the checkRoundCompleteness of that
\* render, which reads that state whenever it runs; completing records
\* whether the event left every completeness condition satisfied
checkTimer(state, completing) ==
    [callback |-> "checkRoundCompleteness", closure |-> state,
     completing |-> completing]

\* setTimeout(..., 500) of a wrong selection, if the selection was one
dropTimer(wasSelected, isCorrect, timer) ==
    IF ~wasSelected /\ ~isCorrect THEN <<timer>> ELSE <<>>

\* the timers without timer i
withoutTimer(i) == SubSeq(timers, 1, i - 1) \o SubSeq(timers, i + 1, Len(timers))

\* timer i is the next to run of its delay: the checks (100 ms) run in the
\* order of their events, the drops (500 ms) too, and the drop of an event
\* after its check
isDue(i) ==
    IF timers[i].callback = "checkRoundCompleteness"
    THEN \A j \in 1..(i - 1) : timers[j].callback # "checkRoundCompleteness"
    ELSE i = 1

\* Set.add and Set.delete on a Set whose order of insertion is read
addLast(seq, v) == IF v \in Range(seq) THEN seq ELSE Append(seq, v)
delete(seq, v) == SelectSeq(seq, LAMBDA x : x # v)

\* the event is counted
counted(state) == [state EXCEPT !.events = @ + 1]

InitScreen ==
    /\ pc = "screen"
    /\ \E count \in screenCardCounts : \E players \in screenPlayerCounts :
          screen = [mounted EXCEPT !.selectedCardCount = count,
                                   !.selectedPlayerCount = players]
    /\ heap = <<>> /\ timers = <<>>
    /\ storage = Null /\ savers = <<>> /\ saved = <<>>
    /\ hand1 = NoHand /\ hand2 = NoHand /\ hand3 = NoHand
    /\ rank = HighCard
    /\ result = NoResult
    /\ noItems /\ noCalls
    /\ engineIdle

\* the state setters of selectAnswer: ref is the Set object of the hand, or
\* the new one; the handler has changed it in place
answerSelected(state, handIndex, answer, ref, wasSelected, isCorrect) ==
    IF wasSelected
    THEN [state EXCEPT
             !.selectedAnswers = set(@, handIndex, ref),
             !.showingResults = TRUE,
             !.elevatedCards = @ \ {handIndex},
             !.elevatedHoleCards = IF state.selectedCardCount = 2
                                   THEN set(@, handIndex, <<>>) ELSE @,
             !.roundStatus = "incomplete"]
    ELSE IF isCorrect
    THEN [state EXCEPT
             !.selectedAnswers = set(@, handIndex, ref),
             !.showingResults = TRUE,
             !.elevatedCards = @ \cup {handIndex},
             !.elevatedHoleCards = IF state.selectedCardCount = 2 /\ answer = "hi"
                                   THEN set(@, handIndex, <<1, 2>>) ELSE @]
    ELSE [state EXCEPT
             !.selectedAnswers = set(@, handIndex, ref),
             !.showingResults = TRUE,
             !.roundStatus = "failed",
             !.hadFailureThisRound = TRUE,
             !.elevatedCards = @ \cup {handIndex}]

\* the Set objects after selectAnswer: current.add(answer) or
\* current.delete(answer) on the Set of the hand, or on a new Set
answerObjects(objects, ref, answer) ==
    IF ref = 0 THEN Append(objects, {answer})
    ELSE IF answer \in objects[ref] THEN [objects EXCEPT ![ref] = @ \ {answer}]
    ELSE [objects EXCEPT ![ref] = @ \cup {answer}]

\* the event has led to the state after and the objects: its timers are set
schedule(checked, after, objects, dropped) ==
    /\ screen' = after
    /\ heap' = objects
    /\ timers' = timers \o <<checkTimer(screen, allChecksPassed(checked, after, objects))>>
                        \o dropped

\* selectAnswer with its locals
selectAnswer(checked, handIndex, answer, ref, wasSelected, isCorrect) ==
    schedule(checked,
             answerSelected(counted(screen), handIndex, answer,
                            IF ref = 0 THEN Len(heap) + 1 ELSE ref,
                            wasSelected, isCorrect),
             answerObjects(heap, ref, answer),
             dropTimer(wasSelected, isCorrect,
                       [callback |-> "dropCard", handIndex |-> handIndex]))

\* selectAnswer(handIndex, answer): a press on "Hi" or "Low"
SelectAnswer(checked) ==
    /\ canSelect
    /\ \E handIndex \in 1..Len(screen.hands) :
       \E answer \in (IF screen.selectedCardCount = 2 THEN {"hi"} ELSE {"hi", "low"}) :
          selectAnswer(checked, handIndex, answer,
                       getOr(screen.selectedAnswers, handIndex, 0),
                       answer \in answersOf(screen, heap, handIndex),
                       checked.checkAnswer[handIndex][answer])
    /\ UNCHANGED <<pc, handVars, calls, result, engineVars, storageVars>>

\* the state setters of selectCommunityCard
communityCardSelected(state, index, wasSelected, isCorrect) ==
    IF wasSelected
    THEN [state EXCEPT !.selectedCommunityCards = @ \ {index},
                       !.elevatedCommunityCards = @ \ {index},
                       !.roundStatus = "incomplete"]
    ELSE IF isCorrect
    THEN [state EXCEPT !.selectedCommunityCards = @ \cup {index},
                       !.elevatedCommunityCards = @ \cup {index}]
    ELSE [state EXCEPT !.selectedCommunityCards = @ \cup {index},
                       !.roundStatus = "failed",
                       !.hadFailureThisRound = TRUE,
                       !.elevatedCommunityCards = @ \cup {index}]

\* selectCommunityCard(index): a press on a community card
SelectCommunityCard(checked) ==
    /\ canSelect
    /\ \E index \in 1..CommunityPresses :
          /\ index <= Len(screen.communityCards)
          /\ schedule(checked,
                      communityCardSelected(counted(screen), index,
                                            index \in screen.selectedCommunityCards,
                                            checked.isCorrectCommunityCard[index]),
                      heap,
                      dropTimer(index \in screen.selectedCommunityCards,
                                checked.isCorrectCommunityCard[index],
                                [callback |-> "dropCommunityCard", index |-> index]))
    /\ UNCHANGED <<pc, handVars, calls, result, engineVars, storageVars>>

\* the state setters of selectHoleCard, current being
\* selectedHoleCards.get(handIndex) ?? new Set()
holeCardSelected(state, handIndex, cardIndex, current, isCorrect) ==
    IF cardIndex \in current
    THEN [state EXCEPT
             !.selectedHoleCards = set(@, handIndex, current \ {cardIndex}),
             !.elevatedHoleCards =
                 set(@, handIndex, delete(getOr(@, handIndex, <<>>), cardIndex)),
             !.roundStatus = "incomplete"]
    ELSE IF isCorrect
    THEN [state EXCEPT
             !.selectedHoleCards = set(@, handIndex, current \cup {cardIndex}),
             !.elevatedHoleCards =
                 set(@, handIndex, addLast(getOr(@, handIndex, <<>>), cardIndex))]
    ELSE [state EXCEPT
             !.selectedHoleCards = set(@, handIndex, current \cup {cardIndex}),
             !.roundStatus = "failed",
             !.hadFailureThisRound = TRUE,
             !.elevatedHoleCards =
                 set(@, handIndex, addLast(getOr(@, handIndex, <<>>), cardIndex))]

\* selectHoleCard(handIndex, cardIndex): a press on a hole card, which the
\* view takes unless 2 hole cards are dealt
SelectHoleCard(checked) ==
    /\ canSelect
    /\ screen.selectedCardCount # 2
    /\ \E cardIndex \in 1..HolePresses :
          /\ cardIndex <= Len(screen.hands[HolePressHand].cards)
          /\ schedule(checked,
                      holeCardSelected(counted(screen), HolePressHand, cardIndex,
                                       getOr(screen.selectedHoleCards, HolePressHand, {}),
                                       checked.isCorrectHoleCard[HolePressHand][cardIndex]),
                      heap,
                      dropTimer(cardIndex \in getOr(screen.selectedHoleCards,
                                                    HolePressHand, {}),
                                checked.isCorrectHoleCard[HolePressHand][cardIndex],
                                [callback |-> "dropHoleCard", handIndex |-> HolePressHand,
                                 cardIndex |-> cardIndex]))
    /\ UNCHANGED <<pc, handVars, calls, result, engineVars, storageVars>>

\* the state setters of handleNoLowPress
noLowPressed(state, isCorrect) ==
    IF ~state.noLowSelected
    THEN IF ~isCorrect
         THEN [state EXCEPT !.noLowSelected = ~@, !.showingResults = TRUE,
                            !.roundStatus = "failed", !.hadFailureThisRound = TRUE]
         ELSE [state EXCEPT !.noLowSelected = ~@, !.showingResults = TRUE]
    ELSE [state EXCEPT !.noLowSelected = ~@, !.showingResults = TRUE,
                       !.roundStatus = "incomplete"]

\* handleNoLowPress(): a press on "No Low", shown unless 2 hole cards are dealt
HandleNoLowPress(checked) ==
    /\ canSelect
    /\ screen.selectedCardCount # 2
    /\ schedule(checked, noLowPressed(counted(screen), checked.checkNoLowAnswer),
                heap, <<>>)
    /\ UNCHANGED <<pc, handVars, calls, result, engineVars, storageVars>>

\* checkRoundCompleteness past "All checks passed!", in the render of closure
roundComplete(closure, roundResult) ==
    IF closure.timerActive /\ closure.timerStartTime # Null
    THEN /\ Len(savers) < MaxSaves
         /\ saveRoundResult(roundResult)
         /\ screen' = [screen EXCEPT !.roundStatus = "correct",
                                     !.roundResults = pushRoundResult(@, roundResult),
                                     !.timerActive = FALSE]
    ELSE /\ UNCHANGED <<savers, saved>>
         /\ screen' = [screen EXCEPT !.roundStatus = "correct",
                                     !.timerActive = FALSE]

\* a pending checkRoundCompleteness() runs, on the state of its closure; its
\* state setters act on the state of the screen as it is now
CheckRoundCompleteness(answered) ==
    \E i \in 1..Len(timers) :
       /\ timers[i].callback = "checkRoundCompleteness"
       /\ isDue(i)
       /\ IF allChecksPassed(answered[dealOf(timers[i].closure)], timers[i].closure, heap)
          THEN roundComplete(timers[i].closure,
                             [isCorrect |-> TRUE, round |-> timers[i].closure.dealt])
          ELSE UNCHANGED <<screen, savers, saved>>
       /\ timers' = withoutTimer(i)
       /\ UNCHANGED <<pc, handVars, calls, result, engineVars, storage, heap>>

\* the timeout of a wrong answer runs: "Brief elevation then drop"
DropCard ==
    /\ timers # <<>>
    /\ timers[1].callback = "dropCard"
    /\ screen' = [screen EXCEPT !.elevatedCards = @ \ {timers[1].handIndex}]
    /\ timers' = withoutTimer(1)
    /\ UNCHANGED <<pc, handVars, calls, result, engineVars, storageVars, heap>>

\* the timeout of a wrong community card runs
DropCommunityCard ==
    /\ timers # <<>>
    /\ timers[1].callback = "dropCommunityCard"
    /\ screen' = [screen EXCEPT
                     !.elevatedCommunityCards = @ \ {timers[1].index},
                     !.selectedCommunityCards = @ \ {timers[1].index}]
    /\ timers' = withoutTimer(1)
    /\ UNCHANGED <<pc, handVars, calls, result, engineVars, storageVars, heap>>

\* the timeout of a wrong hole card runs
DropHoleCard ==
    /\ timers # <<>>
    /\ timers[1].callback = "dropHoleCard"
    /\ screen' = [screen EXCEPT
                     !.elevatedHoleCards =
                         set(@, timers[1].handIndex,
                             delete(getOr(@, timers[1].handIndex, <<>>),
                                    timers[1].cardIndex)),
                     !.selectedHoleCards =
                         set(@, timers[1].handIndex,
                             getOr(@, timers[1].handIndex, {}) \ {timers[1].cardIndex})]
    /\ timers' = withoutTimer(1)
    /\ UNCHANGED <<pc, handVars, calls, result, engineVars, storageVars, heap>>

\* the screen does not read the storage after it is mounted: the steps of the
\* saveRoundResult calls it makes are those of SpecOverlap
NextScreen ==
    \/ StartGame(screenShuffles)
    \/ AdvanceRevealStage
    \/ RedealHands(screenShuffles)
    \/ \E answered \in {checks} :
          \/ SelectAnswer(answered[dealOf(screen)])
          \/ SelectCommunityCard(answered[dealOf(screen)])
          \/ SelectHoleCard(answered[dealOf(screen)])
          \/ HandleNoLowPress(answered[dealOf(screen)])
          \/ CheckRoundCompleteness(answered)
    \/ DropCard
    \/ DropCommunityCard
    \/ DropHoleCard

SpecScreen == InitScreen /\ [][NextScreen]_vars


\* C28: when a selection event makes the selection state satisfy every
\* completeness condition, the checkRoundCompleteness call that this event
\* scheduled, run with no further user event and no new deal in between,
\* sets roundStatus to 'correct'.
C28_CompletingCheckSetsCorrect ==
    [][\A i \in 1..Len(timers) :
          (/\ timers[i].callback = "checkRoundCompleteness"
           /\ timers[i].completing
           /\ screen.events = timers[i].closure.events + 1
           /\ screen.dealt = timers[i].closure.dealt
           /\ isDue(i)
           /\ timers' = withoutTimer(i))
          => screen'.roundStatus = "correct"]_vars

\* C29: roundStatus is set to 'correct', and a RoundResult with isCorrect =
\* true is recorded, only while hadFailureThisRound is false, and no
\* RoundResult is recorded for a round that already has one.
C29_CorrectOnlyWithoutFailure ==
    [][/\ (screen'.roundStatus = "correct" /\ screen.roundStatus # "correct")
             => ~screen.hadFailureThisRound
       /\ Len(saved') > Len(saved)
             => /\ saved'[Len(saved')].isCorrect => ~screen.hadFailureThisRound
                /\ \A k \in 1..Len(saved) : saved[k].round # saved'[Len(saved')].round]_vars

====
